---- MODULE Spec2Model ----
(***************************************************************************)
(* A model of go-parse: the two schema loaders (pkg/schema: the global     *)
(* SchemaDefinitions map filled by LoadSchemaFile, and the SchemaRegistry  *)
(* filled by LoadFromFile), the lookups with their miss counters, and the  *)
(* row projection of cmd/main.go (createDMLEvent and its three callers).   *)
(*                                                                         *)
(* Text is modelled character by character: a Go string is a TLA+ string,  *)
(* a character is a string of length one, and the regular expressions are  *)
(* matched the way Go's regexp package matches them (leftmost match, with  *)
(* the preference order of a backtracking matcher).                        *)
(***************************************************************************)
EXTENDS Integers, Sequences, FiniteSets, TLC

(***************************************************************************)
(* Go strings: package strings                                             *)
(***************************************************************************)
Ch(s, i) == SubSeq(s, i, i)

Min(S) == CHOOSE x \in S : \A y \in S : x <= y

Max(S) == CHOOSE x \in S : \A y \in S : x >= y

LowerLetters == "abcdefghijklmnopqrstuvwxyz"

UpperLetters == "ABCDEFGHIJKLMNOPQRSTUVWXYZ"

UpperMap ==
  [c \in {Ch(LowerLetters, i) : i \in 1..Len(LowerLetters)} |->
     Ch(UpperLetters, CHOOSE i \in 1..Len(LowerLetters) : Ch(LowerLetters, i) = c)]

ToUpperCh(c) == IF c \in DOMAIN UpperMap THEN UpperMap[c] ELSE c

\* strings.ToUpper, on the letters a-z (halving keeps the recursion shallow)
RECURSIVE ToUpper(_)
ToUpper(s) ==
  IF s = "" THEN ""
  ELSE IF Len(s) = 1 THEN ToUpperCh(s)
  ELSE ToUpper(SubSeq(s, 1, Len(s) \div 2)) \o ToUpper(SubSeq(s, Len(s) \div 2 + 1, Len(s)))

\* the white space of regexp's \s; on the characters of the model it is also
\* the white space strings.TrimSpace removes
SpaceChars == {" ", "\t", "\n", "\r", "\f"}

IsSpace(c) == c \in SpaceChars

HasPrefix(s, p) == Len(s) >= Len(p) /\ SubSeq(s, 1, Len(p)) = p

HasSuffix(s, p) == Len(s) >= Len(p) /\ SubSeq(s, Len(s) - Len(p) + 1, Len(s)) = p

TrimPrefix(s, p) == IF HasPrefix(s, p) THEN SubSeq(s, Len(p) + 1, Len(s)) ELSE s

\* strings.Trim(s, cutset): drop the leading and the trailing characters of cutset
Trim(s, cutset) ==
  LET keep == {i \in 1..Len(s) : Ch(s, i) \notin cutset}
  IN  IF keep = {} THEN "" ELSE SubSeq(s, Min(keep), Max(keep))

TrimSpace(s) == Trim(s, SpaceChars)

\* strings.Index(s, sub), strings.LastIndex(s, sub): 0-based, -1 when absent
Occurrences(s, sub) ==
  {i \in 0..(Len(s) - Len(sub)) : SubSeq(s, i + 1, i + Len(sub)) = sub}

Index(s, sub) == IF Occurrences(s, sub) = {} THEN -1 ELSE Min(Occurrences(s, sub))

LastIndex(s, sub) == IF Occurrences(s, sub) = {} THEN -1 ELSE Max(Occurrences(s, sub))

Contains(s, sub) == Index(s, sub) >= 0

\* strings.Split(s, sep) for a one-character separator
RECURSIVE Split(_, _)
Split(s, sep) ==
  LET i == Index(s, sep)
  IN  IF i < 0 THEN <<s>>
      ELSE <<SubSeq(s, 1, i)>> \o Split(SubSeq(s, i + 2, Len(s)), sep)

\* strconv: the decimal digits of a natural number, as %d prints them
Digits == "0123456789"

RECURSIVE Itoa(_)
Itoa(n) == IF n < 10 THEN Ch(Digits, n + 1) ELSE Itoa(n \div 10) \o Ch(Digits, (n % 10) + 1)

\* the two quoting characters of the SQL dumps
Backtick == SubSeq("`'", 1, 1)

Apostrophe == SubSeq("`'", 2, 2)

\* the characters in the order of their bytes, which is the order of < on Go
\* strings
AsciiOrder ==
  " !\"#$%&'()*+,-./0123456789:;<=>?@ABCDEFGHIJKLMNOPQRSTUVWXYZ[\\]^_" \o Backtick
    \o "abcdefghijklmnopqrstuvwxyz{|}~"

Ord(c) == CHOOSE i \in 1..Len(AsciiOrder) : Ch(AsciiOrder, i) = c

\* a < b on Go strings
RECURSIVE StringLess(_, _)
StringLess(a, b) ==
  IF b = "" THEN FALSE
  ELSE IF a = "" THEN TRUE
  ELSE IF Ch(a, 1) = Ch(b, 1)
       THEN StringLess(SubSeq(a, 2, Len(a)), SubSeq(b, 2, Len(b)))
       ELSE Ord(Ch(a, 1)) < Ord(Ch(b, 1))

\* fmt.Sprintf("%s.%s", a, b)
DotKey(a, b) == a \o "." \o b

(***************************************************************************)
(* Regular expressions.  RunEnd(s, i, P) is the position after the longest *)
(* run of characters satisfying P that starts at position i (1-based): a   *)
(* greedy P* or P+ ends there.                                             *)
(***************************************************************************)
RunEnd(s, i, P(_)) ==
  Min({j \in i..(Len(s) + 1) : j = Len(s) + 1 \/ ~P(Ch(s, j))})

NoMatch == [ok |-> FALSE]

\* the first matching attempt of a sequence of attempts, in order
FirstOf(attempts) ==
  LET matching == {i \in DOMAIN attempts : attempts[i].ok}
  IN  IF matching = {} THEN NoMatch ELSE attempts[Min(matching)]

(***************************************************************************)
(* pkg/schema/schema.go: the regular expressions                           *)
(***************************************************************************)
\* [^\s(]
IsNameCh(c) == ~IsSpace(c) /\ c # "("

\* [^\s,]
IsTokenCh(c) == ~IsSpace(c) /\ c # ","

\* [^,]
IsNotComma(c) == c # ","

\* CreateTableRegex from the table name on, the name starting at position r:
\*   ([^\s(]+)\s*\((.*?)\)[^;]*;
\* The name is the whole run (a shorter one is followed by a name character,
\* never by the parenthesis), the lazy (.*?) stops at the first ")" that has a
\* ";" somewhere after it.
CreateTableTail(s, r) ==
  LET e == RunEnd(s, r, IsNameCh)
      u == RunEnd(s, e, IsSpace)
      closers == {v \in (u + 1)..Len(s) :
                    Ch(s, v) = ")" /\ \E w \in (v + 1)..Len(s) : Ch(s, w) = ";"}
  IN  IF e = r \/ u > Len(s) \/ Ch(s, u) # "(" \/ closers = {} THEN NoMatch
      ELSE [ok |-> TRUE, name |-> SubSeq(s, r, e - 1),
            columnDefs |-> SubSeq(s, u + 1, Min(closers) - 1)]

\* the optional qualifier (?:[^.]+\.)? tried at position r: the greedy [^.]+
\* runs to the first dot; taking the qualifier is tried before skipping it
CreateTableFrom(s, r) ==
  LET dots == {d \in (r + 1)..Len(s) : Ch(s, d) = "."}
      qualified == IF r <= Len(s) /\ Ch(s, r) # "." /\ dots # {}
                   THEN CreateTableTail(s, Min(dots) + 1) ELSE NoMatch
  IN  IF qualified.ok THEN qualified ELSE CreateTableTail(s, r)

\* (?i)CREATE TABLE\s+ at position p, the greedy \s+ giving characters back
\* one at a time
CreateTableAt(s, p) ==
  LET q == p + 12
      m == RunEnd(s, q, IsSpace)
  IN  IF q - 1 > Len(s) \/ ToUpper(SubSeq(s, p, q - 1)) # "CREATE TABLE" \/ m = q
      THEN NoMatch
      ELSE FirstOf([k \in 1..(m - q) |-> CreateTableFrom(s, m - k + 1)])

\* CreateTableRegex.FindStringSubmatch(s): the leftmost match
CreateTableRegex(s) == FirstOf([p \in 1..Len(s) |-> CreateTableAt(s, p)])

\* the end of ([^,\s]+(?:\s+[^,\s]+)*) whose first token ends before e
RECURSIVE TokensEnd(_, _)
TokensEnd(c, e) ==
  LET w == RunEnd(c, e, IsSpace)
      t == RunEnd(c, w, IsTokenCh)
  IN  IF w > e /\ t > w THEN TokensEnd(c, t) ELSE e

\* ColumnDefRegex at position p:
\*   \s*([^\s,]+)\s+([^,\s]+(?:\s+[^,\s]+)*)\s*([^,]*),?
\* stop is the position after the match
ColumnDefAt(c, p) ==
  LET a  == RunEnd(c, p, IsSpace)
      b  == RunEnd(c, a, IsTokenCh)
      w  == RunEnd(c, b, IsSpace)
      t  == RunEnd(c, w, IsTokenCh)
      e2 == TokensEnd(c, t)
      x  == RunEnd(c, e2, IsSpace)
      y  == RunEnd(c, x, IsNotComma)
  IN  IF b = a \/ w = b \/ t = w THEN NoMatch
      ELSE [ok |-> TRUE, m1 |-> SubSeq(c, a, b - 1), m2 |-> SubSeq(c, w, e2 - 1),
            m3 |-> SubSeq(c, x, y - 1),
            stop |-> IF y <= Len(c) /\ Ch(c, y) = "," THEN y + 1 ELSE y]

\* ColumnDefRegex.FindAllStringSubmatch(c, -1) from position pos on: the
\* successive leftmost non-overlapping matches
RECURSIVE ColumnDefRegex(_, _)
ColumnDefRegex(c, pos) ==
  LET m == FirstOf([i \in 1..(Len(c) - pos + 1) |-> ColumnDefAt(c, pos + i - 1)])
  IN  IF ~m.ok THEN <<>> ELSE <<m>> \o ColumnDefRegex(c, m.stop)

(***************************************************************************)
(* pkg/schema/schema.go: parseColumns, parseSQLSchema, parseJSONSchema     *)
(***************************************************************************)
IsColumnMatch(m) ==
  /\ ~HasPrefix(ToUpper(m.m1), "PRIMARY")
  /\ ~HasPrefix(ToUpper(m.m1), "KEY")
  /\ ~HasPrefix(ToUpper(m.m1), "INDEX")
  /\ ~HasPrefix(ToUpper(m.m1), "CONSTRAINT")

ColumnDef(m) ==
  [Name |-> Trim(m.m1, {Backtick}), Type |-> ToUpper(m.m2),
   Nullable |-> ~Contains(ToUpper(m.m3), "NOT NULL")]

RECURSIVE ColumnsOf(_)
ColumnsOf(matches) ==
  IF matches = <<>> THEN <<>>
  ELSE (IF IsColumnMatch(Head(matches)) THEN <<ColumnDef(Head(matches))>> ELSE <<>>)
       \o ColumnsOf(Tail(matches))

parseColumns(columnDefs) == ColumnsOf(ColumnDefRegex(columnDefs, 1))

\* a map with one more entry, as m[key] = value makes it
Put(m, key, value) == [k \in DOMAIN m \cup {key} |-> IF k = key THEN value ELSE m[k]]

EmptyMap == [k \in {} |-> 0]

\* one turn of the scanner loop of parseSQLSchema; st is the state of the loop
\* (currentSchema, buffer) and the definitions map
SQLLine(st, text) ==
  LET line == TrimSpace(text)
  IN  IF line = "" \/ HasPrefix(line, "--") \/ HasPrefix(line, "/*") THEN st
      ELSE IF HasPrefix(ToUpper(line), "USE ")
      THEN [st EXCEPT !.currentSchema =
                        Trim(TrimPrefix(ToUpper(line), "USE "), {" ", ";", Backtick})]
      ELSE LET sql == st.buffer \o line \o " "
               m   == CreateTableRegex(sql)
           IN  IF ~HasSuffix(line, ";") THEN [st EXCEPT !.buffer = sql]
               ELSE IF ~m.ok THEN [st EXCEPT !.buffer = ""]
               ELSE LET tableName == Trim(m.name, {Backtick})
                        table == [Name |-> tableName, Schema |-> st.currentSchema,
                                  Columns |-> parseColumns(m.columnDefs)]
                    IN  [st EXCEPT !.buffer = "",
                                   !.defs = Put(@, DotKey(st.currentSchema, tableName), table)]

RECURSIVE SQLLines(_, _)
SQLLines(st, lines) ==
  IF lines = <<>> THEN st ELSE SQLLines(SQLLine(st, Head(lines)), Tail(lines))

\* parseSQLSchema(filename) on the lines of the file, SchemaDefinitions being defs
parseSQLSchema(defs, lines) ==
  SQLLines([currentSchema |-> "", buffer |-> "", defs |-> defs], lines).defs

(***************************************************************************)
(* SchemaRegistry.LoadFromFile: its two regular expressions                *)
(***************************************************************************)
\* [^'\.]
IsNotQuoteDot(c) == c # Apostrophe /\ c # "."

\* [^\s]
IsNotSpace(c) == ~IsSpace(c)

\* [^,\n]
IsTypeCh(c) == c # "," /\ c # "\n"

\* the positions at which ([^\s\(]+) may start when ([^'\.]+) stopped before
\* e: [']? and \.? each first take their character, then leave it
AfterName(s, e) ==
  LET quotes == IF e <= Len(s) /\ Ch(s, e) = Apostrophe THEN <<e + 1, e>> ELSE <<e>>
      Dots(e1) == IF e1 <= Len(s) /\ Ch(s, e1) = "." THEN <<e1 + 1, e1>> ELSE <<e1>>
  IN  IF Len(quotes) = 2 THEN Dots(quotes[1]) \o Dots(quotes[2]) ELSE Dots(quotes[1])

\* [']?([^'\.]+)[']?\.?([^\s\(]+) with ([^'\.]+) matching SubSeq(s, a, e - 1)
RegistryNameEnd(s, a, e) ==
  FirstOf([i \in 1..Len(AfterName(s, e)) |->
             LET g == AfterName(s, e)[i]
             IN  IF g <= Len(s) /\ IsNameCh(Ch(s, g))
                 THEN [ok |-> TRUE, m1 |-> SubSeq(s, a, e - 1),
                       m2 |-> SubSeq(s, g, RunEnd(s, g, IsNameCh) - 1)]
                 ELSE NoMatch])

\* ([^'\.]+) from position a: the longest run first, then shorter ones
RegistryNameFrom(s, a) ==
  LET n == RunEnd(s, a, IsNotQuoteDot)
  IN  FirstOf([k \in 1..(n - a) |-> RegistryNameEnd(s, a, n - k + 1)])

\* createTableRegex at position p: CREATE TABLE\s+[']? and the rest, the
\* greedy \s+ giving characters back one at a time
RegistryCreateAt(s, p) ==
  LET q == p + 12
      m == RunEnd(s, q, IsSpace)
      From(r) == LET quoted == IF r <= Len(s) /\ Ch(s, r) = Apostrophe
                               THEN RegistryNameFrom(s, r + 1) ELSE NoMatch
                 IN  IF quoted.ok THEN quoted ELSE RegistryNameFrom(s, r)
  IN  IF q - 1 > Len(s) \/ SubSeq(s, p, q - 1) # "CREATE TABLE" \/ m = q THEN NoMatch
      ELSE FirstOf([k \in 1..(m - q) |-> From(m - k + 1)])

\* createTableRegex.FindStringSubmatch(createStmt)
createTableRegex(s) == FirstOf([p \in 1..Len(s) |-> RegistryCreateAt(s, p)])

\* columnRegex.FindStringSubmatch(line):  ^\s*([^\s]+)\s+([^,\n]+)(?:,|$)
columnRegex(line) ==
  LET a == RunEnd(line, 1, IsSpace)
      b == RunEnd(line, a, IsNotSpace)
      w == RunEnd(line, b, IsSpace)
      \* ([^,\n]+) from position g on, the longest run first
      Type(g) == LET y == RunEnd(line, g, IsTypeCh)
                 IN  FirstOf([k \in 1..(y - g) |->
                        LET e == y - k + 1
                        IN  IF e = Len(line) + 1 \/ Ch(line, e) = ","
                            THEN [ok |-> TRUE, m1 |-> SubSeq(line, a, b - 1),
                                  m2 |-> SubSeq(line, g, e - 1)]
                            ELSE NoMatch])
  IN  IF b = a \/ w = b THEN NoMatch
      ELSE FirstOf([k \in 1..(w - b) |-> Type(w - k + 1)])

(***************************************************************************)
(* SchemaRegistry.LoadFromFile                                             *)
(***************************************************************************)
IsColumnLine(line) ==
  /\ ~HasPrefix(ToUpper(line), "PRIMARY KEY")
  /\ ~HasPrefix(ToUpper(line), "KEY")
  /\ ~HasPrefix(ToUpper(line), "UNIQUE KEY")
  /\ ~HasPrefix(ToUpper(line), "CONSTRAINT")

\* the columns appended for the pieces of strings.Split(columnsPart, ",")
RECURSIVE RegistryColumns(_)
RegistryColumns(pieces) ==
  IF pieces = <<>> THEN <<>>
  ELSE LET line == TrimSpace(Head(pieces))
           m    == columnRegex(line)
       IN  (IF m.ok /\ IsColumnLine(line)
            THEN <<[Name |-> Trim(m.m1, {Backtick, Apostrophe}),
                    DataType |-> TrimSpace(m.m2)]>>
            ELSE <<>>) \o RegistryColumns(Tail(pieces))

\* the column list of the table built from a complete statement
ColumnsOfStatement(createStmt) ==
  LET startIdx == Index(createStmt, "(")
      endIdx   == LastIndex(createStmt, ")")
  IN  IF startIdx > 0 /\ endIdx > startIdx
      THEN RegistryColumns(Split(SubSeq(createStmt, startIdx + 2, endIdx), ","))
      ELSE <<>>

\* currentDB: no database yet, or <<name>>, the database of that name
NilDB == <<>>

\* the end of a statement: the table is built and, when a database is current,
\* stored in it
CompleteStatement(st, createStmt) ==
  LET m == createTableRegex(createStmt)
      tableName == Trim(m.m1, {Backtick, Apostrophe})
      table == [Name |-> tableName, Columns |-> ColumnsOfStatement(createStmt)]
  IN  IF m.ok /\ st.currentDB # NilDB
      THEN [st EXCEPT !.Databases[st.currentDB[1]].Tables = Put(@, tableName, table)]
      ELSE st

\* one turn of the scanner loop of LoadFromFile; st is the state of the loop
\* (currentDB, inCreateTable, buffer) and the Databases map
RegistryLine(st, text) ==
  LET line == TrimSpace(text)
  IN  IF HasPrefix(line, "--") \/ HasPrefix(line, "/*") \/ line = "" THEN st
      ELSE IF HasPrefix(ToUpper(line), "USE ")
      THEN LET dbName == Trim(TrimPrefix(ToUpper(line), "USE "),
                              {" ", ";", Backtick, Apostrophe})
           IN  [st EXCEPT !.currentDB = <<dbName>>,
                          !.Databases = IF dbName \in DOMAIN @ THEN @
                                        ELSE Put(@, dbName, [Name |-> dbName,
                                                             Tables |-> EmptyMap])]
      ELSE IF HasPrefix(ToUpper(line), "CREATE TABLE")
      THEN [st EXCEPT !.inCreateTable = TRUE, !.buffer = line]
      ELSE IF ~st.inCreateTable THEN st
      ELSE IF ~HasSuffix(line, ";") THEN [st EXCEPT !.buffer = @ \o " " \o line]
      ELSE [CompleteStatement(st, st.buffer \o " " \o line)
              EXCEPT !.inCreateTable = FALSE, !.buffer = ""]

RECURSIVE RegistryLines(_, _)
RegistryLines(st, lines) ==
  IF lines = <<>> THEN st ELSE RegistryLines(RegistryLine(st, Head(lines)), Tail(lines))

\* sr.LoadFromFile(filename) on the lines of the file: the Databases afterwards
LoadFromFile(databases, lines) ==
  RegistryLines([currentDB |-> NilDB, inCreateTable |-> FALSE, buffer |-> "",
                 Databases |-> databases], lines).Databases

\* every key given the address of the loop variable, which ends up holding
\* the last table
StoreLoopVariable(defs, tables, i) ==
  IF tables = <<>> THEN defs
  ELSE [k \in DOMAIN defs \cup {DotKey(tables[j].Schema, tables[j].Name) : j \in i..Len(tables)}
          |-> IF k \in {DotKey(tables[j].Schema, tables[j].Name) : j \in i..Len(tables)}
              THEN tables[Len(tables)] ELSE defs[k]]

\* parseJSONSchema's loop over schema.Tables, from table i on
RECURSIVE StoreTables(_, _, _)
StoreTables(defs, tables, i) ==
  IF i > Len(tables) THEN defs
  ELSE StoreTables(Put(defs, DotKey(tables[i].Schema, tables[i].Name), tables[i]),
                   tables, i + 1)

\* parseJSONSchema(data): json is what json.Unmarshal makes of the data, <<>>
\* when it fails and <<schema>> when it decodes a SchemaDef
parseJSONSchema(defs, json) ==
  IF json = <<>> THEN [err |-> TRUE, defs |-> defs]
  ELSE [err |-> FALSE, defs |-> StoreTables(defs, json[1].Tables, 1)]

\* the lines scanner.Scan() delivers: Scan returns false at the end of the
\* file and at the first line that does not fit its buffer
ScannedLines(file) ==
  IF file.tooLong = 0 THEN file.lines ELSE SubSeq(file.lines, 1, file.tooLong - 1)

\* scanner.Err(): nil at the end of the file, bufio.ErrTooLong otherwise
ScannerErr(file) == IF file.tooLong = 0 THEN "" ELSE "bufio.Scanner: token too long"

\* the tables json.Unmarshal has decoded stored although it returned an error
LoadDecodedThenSQL(defs, file) ==
  IF ~file.readable THEN defs
  ELSE parseSQLSchema(StoreTables(defs, file.decoded, 1), ScannedLines(file))

\* LoadSchemaFile(filename), the map it leaves: JSON first, SQL when that fails
LoadSchemaFileDefs(defs, file) ==
  LET js == parseJSONSchema(defs, file.json)
  IN  IF ~file.readable THEN defs
      ELSE IF ~js.err THEN js.defs
      ELSE parseSQLSchema(defs, ScannedLines(file))

\* LoadSchemaFile(filename), the error it returns ("" for nil)
LoadSchemaFileErr(defs, file) ==
  IF ~file.readable THEN "failed to read schema file"
  ELSE IF ~parseJSONSchema(defs, file.json).err THEN ""
  ELSE ScannerErr(file)

\* SchemaRegistry.LoadFromFile(filename), the error it returns ("" for nil)
LoadFromFileErr(file) == IF ~file.readable THEN "open" ELSE ScannerErr(file)

\* GetTableDef(schema, table): <<>> for nil, <<def>> for a definition
TableDefOf(defs, schema, table) ==
  IF DotKey(schema, table) \in DOMAIN defs THEN <<defs[DotKey(schema, table)]>> ELSE <<>>

\* sr.Databases[database].Tables[table] as GetTableInfo reads it
TableInfoOf(databases, database, table) ==
  IF database \in DOMAIN databases /\ table \in DOMAIN databases[database].Tables
  THEN <<databases[database].Tables[table]>> ELSE <<>>

\* the comparison with the counts in ascending order
WarningLessAscending(a, b) ==
  IF a.count # b.count THEN a.count < b.count ELSE StringLess(a.name, b.name)

\* PrintWarnings: the less function given to sort.Slice
WarningLess(a, b) ==
  IF a.count # b.count THEN a.count > b.count ELSE StringLess(a.name, b.name)

\* PrintWarnings: the slice made of the map, in whatever order the map is
\* ranged over
WarningEntries(w) == {[name |-> k, count |-> w[k]] : k \in DOMAIN w}

\* sort.Slice(warnings, less): less is a strict total order on entries with
\* different names, so the sorted slice is the same for every order of the map
RECURSIVE SortSlice(_)
SortSlice(entries) ==
  IF entries = {} THEN <<>>
  ELSE LET first == CHOOSE x \in entries : \A y \in entries \ {x} : WarningLess(x, y)
       IN  <<first>> \o SortSlice(entries \ {first})

\* PrintWarnings: the lines "Table <name> referenced <count> times" it prints,
\* none when the map is empty
WarningLines(w) == IF Cardinality(DOMAIN w) = 0 THEN <<>> ELSE SortSlice(WarningEntries(w))

(***************************************************************************)
(* cmd/main.go: createDMLEvent, handleInsert, handleUpdate, handleDelete   *)
(***************************************************************************)
\* positions counted from one
PositionalNameFromOne(i) == "col_" \o Itoa(i + 1)

\* fmt.Sprintf("col_%d", i)
PositionalName(i) == "col_" \o Itoa(i)

\* for i, val := range row { if i < len(tableDef.Columns) { m[Columns[i].Name] = val } }
\* from the 0-based index i on
RECURSIVE NamedValues(_, _, _, _)
NamedValues(m, columns, row, i) ==
  IF i >= Len(row) THEN m
  ELSE NamedValues(IF i < Len(columns) THEN Put(m, columns[i + 1].Name, row[i + 1]) ELSE m,
                   columns, row, i + 1)

\* for i, val := range row { m[fmt.Sprintf("col_%d", i)] = val }
RECURSIVE PositionalValues(_, _, _)
PositionalValues(m, row, i) ==
  IF i >= Len(row) THEN m
  ELSE PositionalValues(Put(m, PositionalName(i), row[i + 1]), row, i + 1)

\* createDMLEvent(operation, header, event, row, oldRow); oldRow is <<>> for
\* nil and <<row>> otherwise, and so is OldValues
createDMLEvent(defs, operation, ev, row, oldRow) ==
  LET tableDef == TableDefOf(defs, ev.Schema, ev.Table)
      Values(r) == IF tableDef # <<>> THEN NamedValues(EmptyMap, tableDef[1].Columns, r, 0)
                   ELSE PositionalValues(EmptyMap, r, 0)
  IN  [Operation |-> operation, Table |-> ev.Table, Database |-> ev.Schema,
       Timestamp |-> ev.Timestamp, LogPos |-> ev.LogPos,
       RowValues |-> Values(row),
       OldValues |-> IF oldRow # <<>> THEN <<Values(oldRow[1])>> ELSE <<>>]

\* handleInsert / handleDelete: one event for every row
EventsOfRows(defs, operation, ev) ==
  [k \in 1..Len(ev.Rows) |-> createDMLEvent(defs, operation, ev, ev.Rows[k], <<>>)]

\* handleUpdate: for i := 0; i < len(Rows); i += 2 over Rows[i+1], Rows[i]; the
\* events put out before Rows[i+1] is out of range
\* the old and the new row the other way round
UpdatePairSwapped(defs, ev, k) ==
  createDMLEvent(defs, "UPDATE", ev, ev.Rows[2 * k - 1], <<ev.Rows[2 * k]>>)

UpdatePair(defs, ev, k) ==
  createDMLEvent(defs, "UPDATE", ev, ev.Rows[2 * k], <<ev.Rows[2 * k - 1]>>)

EventsOfUpdate(defs, ev) ==
  [k \in 1..(Len(ev.Rows) \div 2) |-> UpdatePair(defs, ev, k)]

\* whether handleUpdate reads Rows[i+1] past the end
UpdateOutOfRange(ev) == Len(ev.Rows) % 2 = 1

(***************************************************************************)
(* The ParseFile callbacks of the three main programs (cmd/main.go, the    *)
(* main with the schema registry, the main with the statistics) and the    *)
(* statistics they keep.  A position is a uint32; the model keeps the      *)
(* arithmetic and makes the integer narrower: Uint32Bits bits.             *)
(***************************************************************************)
Uint32Bits == 4

Uint32Modulus == 2 ^ Uint32Bits

\* the conversion uint32(x) of an int64, and the result of a uint32 operation
Uint32(x) == x % Uint32Modulus

\* const BINLOG_START_POSITION = 4
BINLOG_START_POSITION == 4

\* eventStartPos := e.Header.LogPos - uint32(e.Header.EventSize)
EventStartPos(e) == Uint32(e.LogPos - Uint32(e.EventSize))

\* e.Event.(*replication.RowsEvent) and the switch on e.Header.EventType: the
\* operation of a rows event, "" for every other event
OperationOf(e) ==
  IF e.EventType \in {"WRITE_ROWS_EVENTv1", "WRITE_ROWS_EVENTv2"} THEN "INSERT"
  ELSE IF e.EventType \in {"UPDATE_ROWS_EVENTv1", "UPDATE_ROWS_EVENTv2"} THEN "UPDATE"
  ELSE IF e.EventType \in {"DELETE_ROWS_EVENTv1", "DELETE_ROWS_EVENTv2"} THEN "DELETE"
  ELSE ""

\* every row of an UPDATE event counted
RowCountAllRows(e) == e.Rows

\* the rowCount the callback gives to RecordOperation: len(rowsEvent.Rows), and
\* len(rowsEvent.Rows)/2 for an UPDATE
RowCountOf(e) == IF OperationOf(e) = "UPDATE" THEN e.Rows \div 2 ELSE e.Rows

\* Statistics.RecordOperation(database, table, operation, rowCount) on the
\* map Stats: db -> table -> operation -> Operation
RecordOperation(s, database, table, operation, rowCount) ==
  LET s1 == IF database \in DOMAIN s THEN s ELSE Put(s, database, EmptyMap)
      s2 == IF table \in DOMAIN s1[database] THEN s1
            ELSE Put(s1, database, Put(s1[database], table, EmptyMap))
      s3 == IF operation \in DOMAIN s2[database][table] THEN s2
            ELSE Put(s2, database,
                     Put(s2[database], table,
                         Put(s2[database][table], operation,
                             [Count |-> 0, RowCount |-> 0])))
      old == s3[database][table][operation]
  IN  Put(s3, database,
          Put(s3[database], table,
              Put(s3[database][table], operation,
                  [Count |-> old.Count + 1, RowCount |-> old.RowCount + rowCount])))

\* Statistics.Record(eventType interface{}, table ...string) with a string for
\* eventType, on the map Stats: db -> table -> DbStats
Record(s, eventType, table) ==
  IF Len(table) >= 2
  THEN LET database  == table[1]
           tableName == table[2]
           s1 == IF database \in DOMAIN s THEN s ELSE Put(s, database, EmptyMap)
           s2 == IF tableName \in DOMAIN s1[database] THEN s1
                 ELSE Put(s1, database,
                          Put(s1[database], tableName,
                              [Database |-> database, Table |-> tableName,
                               Inserts |-> 0, Updates |-> 0, Deletes |-> 0]))
           old == s2[database][tableName]
           new == IF eventType = "INSERT" THEN [old EXCEPT !.Inserts = @ + 1]
                  ELSE IF eventType = "UPDATE" THEN [old EXCEPT !.Updates = @ + 1]
                  ELSE IF eventType = "DELETE" THEN [old EXCEPT !.Deletes = @ + 1]
                  ELSE old
       IN  Put(s2, database, Put(s2[database], tableName, new))
  ELSE s

\* the callback of the main with the statistics: stats.Record(schema, table,
\* "INSERT"), whose first argument is the parameter eventType and whose other
\* two are the variadic parameter table
RecordCall(s, e) == Record(s, e.Schema, <<e.Table, OperationOf(e)>>)

\* var stats = DMLStats{TableStats: make(map[string]TableStats)}
NewDMLStats == [Inserts |-> 0, Updates |-> 0, Deletes |-> 0, TableStats |-> EmptyMap]

\* strings.EqualFold on ASCII strings
EqualFold(a, b) == ToUpper(a) = ToUpper(b)

\* handleRowsEvent of cmd/main.go up to the calls of the handlers: the -schema
\* and -table filters, then the counters of stats; r holds the flags
handleRowsEvent(s, r, e) ==
  LET tableKey == DotKey(e.Schema, e.Table)
      zero == [Inserts |-> 0, Updates |-> 0, Deletes |-> 0]
      ts == IF tableKey \in DOMAIN s.TableStats THEN s.TableStats
            ELSE Put(s.TableStats, tableKey, zero)
      s1 == [s EXCEPT !.TableStats = ts]
  IN  IF r.schemaName # "" /\ ~EqualFold(r.schemaName, e.Schema) THEN s
      ELSE IF r.tableName # "" /\ ~EqualFold(r.tableName, e.Table) THEN s
      ELSE IF OperationOf(e) = "INSERT"
           THEN [s1 EXCEPT !.Inserts = @ + 1, !.TableStats[tableKey].Inserts = @ + 1]
      ELSE IF OperationOf(e) = "UPDATE"
           THEN [s1 EXCEPT !.Updates = @ + 1, !.TableStats[tableKey].Updates = @ + 1]
      ELSE IF OperationOf(e) = "DELETE"
           THEN [s1 EXCEPT !.Deletes = @ + 1, !.TableStats[tableKey].Deletes = @ + 1]
      ELSE s1

(***************************************************************************)
(* Statistics.PrintStats                                                   *)
(***************************************************************************)
\* sort.Strings of the keys of a map: ascending, in byte order
RECURSIVE SortStrings(_)
SortStrings(S) ==
  IF S = {} THEN <<>>
  ELSE LET least == CHOOSE x \in S : \A y \in S \ {x} : StringLess(x, y)
       IN  <<least>> \o SortStrings(S \ {least})

\* the orders in which a range loop may visit the keys of a map
Orders(S) ==
  {f \in [1..Cardinality(S) -> S] : \A i, j \in 1..Cardinality(S) : i # j => f[i] # f[j]}

\* the lines "- Type %d: %d", in the order the range loop over EventCounts
\* visits the keys
EventTypeLines(eventCounts, order) ==
  [i \in 1..Len(order) |-> [eventType |-> order[i], count |-> eventCounts[order[i]]]]

\* the lines of the operations of one table, of the tables of one database and
\* of the databases, each in the order of its sorted keys
OperationLines(s, db, table) ==
  LET ops == SortStrings(DOMAIN s[db][table])
  IN  [i \in 1..Len(ops) |->
         [database |-> db, table |-> table, operation |-> ops[i],
          Count |-> s[db][table][ops[i]].Count,
          RowCount |-> s[db][table][ops[i]].RowCount]]

RECURSIVE TableLines(_, _, _)
TableLines(s, db, tableNames) ==
  IF tableNames = <<>> THEN <<>>
  ELSE OperationLines(s, db, Head(tableNames)) \o TableLines(s, db, Tail(tableNames))

RECURSIVE DatabaseLines(_, _)
DatabaseLines(s, dbNames) ==
  IF dbNames = <<>> THEN <<>>
  ELSE TableLines(s, Head(dbNames), SortStrings(DOMAIN s[Head(dbNames)]))
       \o DatabaseLines(s, Tail(dbNames))

\* totalOps += opStats.Count and totalRows += opStats.RowCount over the lines
RECURSIVE TotalOf(_, _)
TotalOf(lines, field) ==
  IF lines = <<>> THEN 0 ELSE Head(lines)[field] + TotalOf(Tail(lines), field)

\* what PrintStats prints of the counters: the event types, the operations and
\* the two totals
PrintStatsLines(eventCounts, order, s) ==
  LET lines == DatabaseLines(s, SortStrings(DOMAIN s))
  IN  [eventTypes |-> EventTypeLines(eventCounts, order),
       operations |-> lines,
       totalOps   |-> TotalOf(lines, "Count"),
       totalRows  |-> TotalOf(lines, "RowCount")]

(***************************************************************************)
(* Inputs: schema files, row events, lookups                               *)
(***************************************************************************)
MaxRows == 4

MaxCols == 3

NumThreads == 2

MaxCalls == 3

BQ(s) == Backtick \o s \o Backtick

\* a schema file: whether it can be opened and read, its lines, the first of
\* them that is longer than the buffer of bufio.Scanner (0 when none is), what
\* json.Unmarshal makes of its bytes (<<>> when it returns an error), and the
\* tables it has decoded when it returns one
SQLFile(lines) ==
  [readable |-> TRUE, json |-> <<>>, decoded |-> <<>>, lines |-> lines, tooLong |-> 0]

JSONFile(text, tables) ==
  [readable |-> TRUE, json |-> <<[Tables |-> tables]>>, decoded |-> tables,
   lines |-> <<text>>, tooLong |-> 0]

Col(name, type, nullable) == [Name |-> name, Type |-> type, Nullable |-> nullable]

UseSbtestFile ==
  SQLFile(<<"USE sbtest;", "CREATE TABLE sbtest1 (", "  id INT,", "  k INT", ");">>)

UpperUseFile ==
  SQLFile(<<"-- two tables", "USE SBTEST;", "", "CREATE TABLE sbtest1 (id INT, k INT);",
            "CREATE TABLE sbtest2 (id INT);">>)

NotNullFile == SQLFile(<<"CREATE TABLE t (a INT, b VARCHAR(10) NOT NULL);">>)

DecimalFile ==
  SQLFile(<<"USE SBTEST;", "CREATE TABLE t (", "  c DECIMAL(10,2),", "  d INT", ");">>)

KeysFile ==
  SQLFile(<<"USE SBTEST;", "CREATE TABLE t (", "  a INT,", "  UNIQUE KEY k (a),",
            "  INDEX i (a)", ");">>)

CommentFile ==
  SQLFile(<<"USE SBTEST;", "CREATE TABLE t (a INT COMMENT 'x, a y', b INT);">>)

QuotedFile ==
  SQLFile(<<"USE sbtest;", "CREATE TABLE 'sbtest1' (", "  id INT,", "  k INT", ");">>)

\* the first table of the sbtest dump shipped with the repository
DumpFile ==
  SQLFile(<<"-- MySQL dump 10.13  Distrib 9.0.1, for macos14.7 (x86_64)",
            "/*!40103 SET TIME_ZONE='+00:00' */;",
            "",
            "CREATE TABLE " \o BQ("sbtest1") \o " (",
            "  " \o BQ("id") \o " int(10) unsigned NOT NULL AUTO_INCREMENT,",
            "  " \o BQ("k") \o " int(10) unsigned NOT NULL DEFAULT '0',",
            "  " \o BQ("c") \o " char(120) COLLATE utf8mb4_bin NOT NULL DEFAULT '',",
            "  " \o BQ("pad") \o " char(60) COLLATE utf8mb4_bin NOT NULL DEFAULT '',",
            "  PRIMARY KEY (" \o BQ("id") \o "),",
            "  KEY " \o BQ("k_1") \o " (" \o BQ("k") \o ")",
            ") ENGINE=InnoDB AUTO_INCREMENT=100001 DEFAULT CHARSET=utf8mb4;",
            "/*!40101 SET character_set_client = @saved_cs_client */;">>)

\* a statement line with a blank after its semicolon, then one without
TrailingSpaceFile ==
  SQLFile(<<"CREATE TABLE a (x INT); ", "CREATE TABLE b (y INT);">>)

\* columns whose names begin with the word of a key clause
KeywordFile ==
  SQLFile(<<"USE SBTEST;", "CREATE TABLE t (", "  id INT,", "  key_id INT,",
            "  index_no INT,", "  primary_contact INT", ");">>)

EmptyFile == SQLFile(<<>>)

\* a file that cannot be opened
UnreadableFile == [SQLFile(<<>>) EXCEPT !.readable = FALSE]

\* a dump with data, whose INSERT statement is one line of more than 64 KB
\* (abbreviated here)
LongLineFile ==
  [SQLFile(<<"-- data only", "SET NAMES utf8mb4;",
             "INSERT INTO t VALUES (1,'a'),(2,'b'),(3,'c');", "COMMIT;">>)
     EXCEPT !.tooLong = 3]

NoTableFile == SQLFile(<<"-- nothing here", "", "SET NAMES utf8mb4;">>)

SbtestDoc ==
  JSONFile("{\"tables\": [{\"name\": \"sbtest1\", \"schema\": \"sbtest\", \"columns\": [...]}, ...]}",
           <<[Name |-> "sbtest1", Schema |-> "sbtest",
              Columns |-> <<Col("id", "int", FALSE), Col("k", "int", FALSE),
                            Col("c", "char(120)", TRUE), Col("pad", "char(60)", TRUE)>>],
             [Name |-> "sbtest2", Schema |-> "sbtest",
              Columns |-> <<Col("id", "int", FALSE), Col("k", "int", TRUE)>>]>>)

DottedDoc ==
  JSONFile("{\"tables\": [{\"name\": \"c\", \"schema\": \"a.b\", \"columns\": [...]}]}",
           <<[Name |-> "c", Schema |-> "a.b", Columns |-> <<Col("x", "int", TRUE)>>]>>)

EmptyDoc == JSONFile("{\"tables\": []}", <<>>)

\* a document whose table names the column a twice
DuplicateDoc ==
  JSONFile("{\"tables\": [{\"name\": \"t\", \"schema\": \"SBTEST\", \"columns\": [a, a]}]}",
           <<[Name |-> "t", Schema |-> "SBTEST",
              Columns |-> <<Col("a", "int", TRUE), Col("a", "bigint", TRUE)>>]>>)

\* a document whose second table has a number for its name: json.Unmarshal
\* decodes the first table and returns an UnmarshalTypeError
BadTypeDoc ==
  [SQLFile(<<"{\"tables\": [{\"name\": \"sbtest1\", \"schema\": \"sbtest\"}, {\"name\": 5}]}">>)
     EXCEPT !.decoded = <<[Name |-> "sbtest1", Schema |-> "sbtest", Columns |-> <<>>]>>]

SchemaFiles ==
  {UseSbtestFile, UpperUseFile, NotNullFile, DecimalFile, KeysFile, CommentFile,
   QuotedFile, DumpFile, EmptyFile, NoTableFile, SbtestDoc, DottedDoc, EmptyDoc,
   UnreadableFile, LongLineFile, BadTypeDoc, TrailingSpaceFile, KeywordFile,
   DuplicateDoc}

\* the schema files given to SchemaRegistry.LoadFromFile
RegistryFiles ==
  {UseSbtestFile, UpperUseFile, DecimalFile, KeysFile, QuotedFile, DumpFile, EmptyFile,
   NoTableFile, UnreadableFile, LongLineFile, KeywordFile}

\* the schema files whose registries GetTableInfo is called on: one with the
\* table SBTEST.sbtest1 and one without
LookupFiles == {QuotedFile, UseSbtestFile}

\* the (database, table) pairs of the row events
TablePairs ==
  {<<"sbtest", "sbtest1">>, <<"SBTEST", "sbtest1">>, <<"SBTEST", "t">>,
   <<"a", "b.c">>, <<"a.b", "c">>}

\* the (database, table) pairs GetTableInfo is called with
LookupPairs == {<<"SBTEST", "sbtest1">>, <<"a", "b.c">>, <<"a.b", "c">>}

\* the value in column i (0-based) of row r of an event: all different, or all
\* the same
CellValue(pattern, r, i) == IF pattern = "distinct" THEN 10 * r + i ELSE 7

RowsOf(pattern, nrows, ncols) ==
  [r \in 1..nrows |-> [i \in 1..ncols |-> CellValue(pattern, r, i - 1)]]

RowsEvents ==
  {[Schema |-> p[1], Table |-> p[2], Timestamp |-> 1700000000, LogPos |-> 10093,
    Rows |-> RowsOf(shape[1], shape[2], shape[3])] :
     p \in TablePairs,
     shape \in ({"distinct"} \X (0..MaxRows) \X (0..MaxCols))
                 \cup ({"same"} \X (0..MaxRows) \X {MaxCols})}

Threads == 1..NumThreads

(***************************************************************************)
(* State                                                                   *)
(***************************************************************************)
\* the events a scan delivers to the callback, at most
MaxEvents == 3

\* the event types given to RecordEventType
EventTypes == {2, 15, 30}

\* the operations given to RecordOperation by a user of the package
OperationCalls == {"b", "a"} \X {"u", "t"} \X {"INSERT", "DELETE"} \X {2}

\* the three programs with a ParseFile callback
MainProgram == "cmd/main.go"

RegistryMain == "main with the schema registry"

StatsMain == "main with the statistics"

\* the events the parser delivers; Rows is len(rowsEvent.Rows), Schema and
\* Table are those of the table map of a rows event
FormatDescription ==
  [EventType |-> "FORMAT_DESCRIPTION_EVENT", LogPos |-> 8, EventSize |-> 4,
   Schema |-> "", Table |-> "", Rows |-> 0]

WriteRows ==
  [EventType |-> "WRITE_ROWS_EVENTv2", LogPos |-> 12, EventSize |-> 4,
   Schema |-> "a", Table |-> "t", Rows |-> 2]

UpdateRows ==
  [EventType |-> "UPDATE_ROWS_EVENTv2", LogPos |-> 12, EventSize |-> 4,
   Schema |-> "a", Table |-> "t", Rows |-> 4]

DeleteRows ==
  [EventType |-> "DELETE_ROWS_EVENTv2", LogPos |-> 15, EventSize |-> 3,
   Schema |-> "b", Table |-> "u", Rows |-> 1]

BinlogEvents == {FormatDescription, WriteRows, UpdateRows, DeleteRows}

\* the values of -offset or -logPosition: an int64 that is not -1; the last
\* two do not fit a uint32, one above its range and one below
StartPositions ==
  {BINLOG_START_POSITION, 8, Uint32Modulus + BINLOG_START_POSITION,
   BINLOG_START_POSITION - Uint32Modulus}

\* the command lines: a program, its position and its flags; no schema file
CommandLines ==
  {[program |-> MainProgram, position |-> p, stopAtNext |-> s, showStats |-> FALSE,
    parseAll |-> FALSE, showSummary |-> y, schemaName |-> n, tableName |-> ""] :
      p \in StartPositions, s \in BOOLEAN, y \in BOOLEAN, n \in {"", "A"}}
  \cup
  {[program |-> RegistryMain, position |-> p, stopAtNext |-> s, showStats |-> y,
    parseAll |-> a, showSummary |-> FALSE, schemaName |-> "", tableName |-> ""] :
      p \in StartPositions, s \in BOOLEAN, y \in BOOLEAN, a \in BOOLEAN}
  \cup
  {[program |-> StatsMain, position |-> p, stopAtNext |-> s, showStats |-> y,
    parseAll |-> FALSE, showSummary |-> FALSE, schemaName |-> "", tableName |-> ""] :
      p \in StartPositions, s \in BOOLEAN, y \in BOOLEAN}

\* startPosition of main: BINLOG_START_POSITION with -all, else the position given
StartPositionOf(r) ==
  IF r.program = RegistryMain /\ r.parseAll THEN BINLOG_START_POSITION ELSE r.position

VARIABLES
  phase,              \* "startup", then the program that runs: "cmd" (cmd/main.go)
                      \* or "registry", with ".exit" once its main has returned
  schemaFile,         \* the schema file given to the loader, <<>> when none
  SchemaDefinitions,  \* pkg/schema: the global map of LoadSchemaFile
  event,              \* the rows event handled last: <<>>, or <<operation, event>>
  output,             \* the DMLEvents outputEvent has put out for it
  panicked,           \* handleUpdate read past the end of Rows
  Databases,          \* sr.Databases
  warnings,           \* sr.warnings
  warnMutex,          \* sr.warnMutex: 0 when free, else the thread holding it
  pc,                 \* where each thread is in GetTableInfo
  arg,                \* the (database, table) of each thread's call
  count,              \* each thread's read of sr.warnings[key]
  ret,                \* what each thread's last call returned: <<>> is nil
  missed,             \* per pair, the calls that found no table
  calls,              \* GetTableInfo calls made so far
  loadErr,            \* the error the loader returned: "" for nil
  report,             \* what PrintWarnings printed: <<>> before it is called
  printer,            \* where the PrintWarnings call is: "idle" before it
  run,                \* the command line of a scan, <<>> before
  delivered,          \* the events ParseFile has given to the callback
  eventsFound,        \* var eventsFound bool
  scanErr,            \* the error the callback returned: <<>> is nil
  dumped,             \* the deliveries (indices of delivered) the callback dumped
  statistics,         \* statistics.Stats of the main with the schema registry
  stats,              \* stats.Stats of the main with the statistics
  dmlStats,           \* var stats of cmd/main.go
  EventCounts,        \* s.EventCounts of the statistics
  printed,            \* what PrintStats printed of the counters: <<>> before
  summary             \* what printSummary of cmd/main.go, or PrintSummary of the
                      \* registry, printed: <<>> before it is called

vars == <<phase, schemaFile, SchemaDefinitions, event, output, panicked, Databases,
          warnings, warnMutex, pc, arg, count, ret, missed, calls, loadErr, report, printer,
          run,
          delivered, eventsFound, scanErr, dumped, statistics, stats, dmlStats,
          EventCounts, printed, summary>>

cmdVars == <<SchemaDefinitions, event, output, panicked>>

registryVars ==
  <<Databases, warnings, warnMutex, pc, arg, count, ret, missed, calls, report,
    printer>>

scanVars ==
  <<run, delivered, eventsFound, scanErr, dumped, statistics, stats, dmlStats,
    EventCounts, printed, summary>>

Init ==
  /\ phase = "startup"
  /\ schemaFile = <<>>
  /\ SchemaDefinitions = EmptyMap
  /\ event = <<>>
  /\ output = <<>>
  /\ panicked = FALSE
  /\ Databases = EmptyMap
  /\ warnings = EmptyMap
  /\ warnMutex = 0
  /\ pc = [t \in Threads |-> "idle"]
  /\ arg = [t \in Threads |-> <<"", "">>]
  /\ count = [t \in Threads |-> 0]
  /\ ret = [t \in Threads |-> <<>>]
  /\ missed = [p \in LookupPairs |-> 0]
  /\ calls = 0
  /\ loadErr = ""
  /\ report = <<>>
  /\ printer = "idle"
  /\ run = <<>>
  /\ delivered = <<>>
  /\ eventsFound = FALSE
  /\ scanErr = <<>>
  /\ dumped = <<>>
  /\ statistics = EmptyMap
  /\ stats = EmptyMap
  /\ dmlStats = NewDMLStats
  /\ EventCounts = EmptyMap
  /\ printed = <<>>
  /\ summary = <<>>

(***************************************************************************)
(* cmd/main.go                                                             *)
(***************************************************************************)
\* main: schema.LoadSchemaFile(*schemaFile), before the binlog is parsed; on an
\* error main prints it and exits
LoadSchemaFile(file) ==
  /\ phase = "startup"
  /\ schemaFile' = <<file>>
  /\ SchemaDefinitions' = LoadSchemaFileDefs(SchemaDefinitions, file)
  /\ loadErr' = LoadSchemaFileErr(SchemaDefinitions, file)
  /\ phase' = IF loadErr' = "" THEN "cmd" ELSE "cmd.exit"
  /\ UNCHANGED <<event, output, panicked>>
  /\ UNCHANGED <<registryVars, scanVars>>

\* main without -schema-file
NoSchemaFile ==
  /\ phase = "startup"
  /\ phase' = "cmd"
  /\ UNCHANGED <<schemaFile, loadErr, cmdVars, registryVars, scanVars>>

handleInsert(ev) ==
  /\ phase = "cmd"
  /\ event' = <<"INSERT", ev>>
  /\ output' = EventsOfRows(SchemaDefinitions, "INSERT", ev)
  /\ panicked' = FALSE
  /\ UNCHANGED <<phase, schemaFile, loadErr, SchemaDefinitions, registryVars, scanVars>>

handleUpdate(ev) ==
  /\ phase = "cmd"
  /\ event' = <<"UPDATE", ev>>
  /\ output' = EventsOfUpdate(SchemaDefinitions, ev)
  /\ panicked' = UpdateOutOfRange(ev)
  /\ UNCHANGED <<phase, schemaFile, loadErr, SchemaDefinitions, registryVars, scanVars>>

handleDelete(ev) ==
  /\ phase = "cmd"
  /\ event' = <<"DELETE", ev>>
  /\ output' = EventsOfRows(SchemaDefinitions, "DELETE", ev)
  /\ panicked' = FALSE
  /\ UNCHANGED <<phase, schemaFile, loadErr, SchemaDefinitions, registryVars, scanVars>>

(***************************************************************************)
(* SchemaRegistry                                                          *)
(***************************************************************************)
\* main: schemaRegistry.LoadFromFile(*schemaFile) on a new registry; on an
\* error main prints it and exits
RegistryLoadFromFile(file) ==
  /\ phase = "startup"
  /\ schemaFile' = <<file>>
  /\ Databases' = IF file.readable THEN LoadFromFile(Databases, ScannedLines(file))
                  ELSE Databases
  /\ loadErr' = LoadFromFileErr(file)
  /\ phase' = IF loadErr' = "" THEN "registry" ELSE "registry.exit"
  /\ UNCHANGED <<warnings, warnMutex, pc, arg, count, ret, missed, calls, report, printer>>
  /\ UNCHANGED <<cmdVars, scanVars>>

\* GetTableInfo up to its return of the table or, when there is none, up to
\* sr.warnMutex.Lock()
GetTableInfo(t, database, table) ==
  /\ phase = "registry"
  /\ schemaFile[1] \in LookupFiles
  /\ pc[t] = "idle"
  /\ calls < MaxCalls
  /\ calls' = calls + 1
  /\ arg' = [arg EXCEPT ![t] = <<database, table>>]
  /\ IF TableInfoOf(Databases, database, table) # <<>>
     THEN /\ ret' = [ret EXCEPT ![t] = TableInfoOf(Databases, database, table)]
          /\ UNCHANGED <<pc, missed>>
     ELSE /\ pc' = [pc EXCEPT ![t] = "lock"]
          /\ missed' = [missed EXCEPT ![<<database, table>>] = @ + 1]
          /\ UNCHANGED ret
  /\ UNCHANGED <<phase, schemaFile, loadErr, report, printer, Databases, warnings, warnMutex, count, cmdVars, scanVars>>

\* a mutex that excludes nobody
MutexNeverHeld(t) == TRUE

\* sync.Mutex: Lock returns once no other thread holds the mutex
MutexFree(t) == warnMutex = 0

\* sr.warnMutex.Lock()
Lock(t) ==
  /\ pc[t] = "lock"
  /\ MutexFree(t)
  /\ warnMutex' = t
  /\ pc' = [pc EXCEPT ![t] = "read"]
  /\ UNCHANGED <<phase, schemaFile, loadErr, report, printer, Databases, warnings, arg, count, ret, missed, calls,
                 cmdVars, scanVars>>

\* the counter of the database, whatever the table
WarningKeyOfDatabase(t) == arg[t][1]

WarningKey(t) == DotKey(arg[t][1], arg[t][2])

\* sr.warnings[key]++ : the read of the map ...
ReadWarning(t) ==
  /\ pc[t] = "read"
  /\ count' = [count EXCEPT ![t] = IF WarningKey(t) \in DOMAIN warnings
                                   THEN warnings[WarningKey(t)] ELSE 0]
  /\ pc' = [pc EXCEPT ![t] = "write"]
  /\ UNCHANGED <<phase, schemaFile, loadErr, report, printer, Databases, warnings, warnMutex, arg, ret, missed,
                 calls, cmdVars, scanVars>>

\* ... and the write of the value read plus one
WriteWarning(t) ==
  /\ pc[t] = "write"
  /\ warnings' = Put(warnings, WarningKey(t), count[t] + 1)
  /\ pc' = [pc EXCEPT ![t] = "unlock"]
  /\ UNCHANGED <<phase, schemaFile, loadErr, report, printer, Databases, warnMutex, arg, count, ret, missed, calls,
                 cmdVars, scanVars>>

\* sr.warnMutex.Unlock(); return nil
Unlock(t) ==
  /\ pc[t] = "unlock"
  /\ warnMutex' = 0
  /\ ret' = [ret EXCEPT ![t] = <<>>]
  /\ pc' = [pc EXCEPT ![t] = "idle"]
  /\ UNCHANGED <<phase, schemaFile, loadErr, report, printer, Databases, warnings, arg, count, missed, calls,
                 cmdVars, scanVars>>

\* the caller of PrintWarnings, as a holder of sr.warnMutex
Printer == NumThreads + 1

\* PrintWarnings, the last statement of main, is called while GetTableInfo
\* calls may be under way
CallPrintWarnings ==
  /\ phase = "registry"
  /\ printer = "idle"
  /\ printer' = "lock"
  /\ UNCHANGED <<phase, schemaFile, loadErr, Databases, warnings, warnMutex, pc, arg,
                 count, ret, missed, calls, report, cmdVars, scanVars>>

\* sr.warnMutex.Lock()
PrintWarningsLock ==
  /\ printer = "lock"
  /\ MutexFree(Printer)
  /\ warnMutex' = Printer
  /\ printer' = "print"
  /\ UNCHANGED <<phase, schemaFile, loadErr, Databases, warnings, pc, arg, count, ret,
                 missed, calls, report, cmdVars, scanVars>>

\* the body of PrintWarnings, from the test of len(sr.warnings) to the last
\* Printf; the report keeps the map it was made from
PrintWarnings ==
  /\ printer = "print"
  /\ report' = <<[counted |-> warnings, lines |-> WarningLines(warnings)]>>
  /\ printer' = "unlock"
  /\ UNCHANGED <<phase, schemaFile, loadErr, Databases, warnings, warnMutex, pc, arg,
                 count, ret, missed, calls, cmdVars, scanVars>>

\* defer sr.warnMutex.Unlock(), and main returns
PrintWarningsUnlock ==
  /\ printer = "unlock"
  /\ warnMutex' = 0
  /\ printer' = "done"
  /\ phase' = "registry.exit"
  /\ UNCHANGED <<schemaFile, loadErr, Databases, warnings, pc, arg, count, ret,
                 missed, calls, report, cmdVars, scanVars>>

\* what PrintSummary prints: per database, the number of its tables and, per
\* table, the number of its columns
SummaryLines(databases) ==
  [d \in DOMAIN databases |->
     [Tables |-> Cardinality(DOMAIN databases[d].Tables),
      Columns |-> [n \in DOMAIN databases[d].Tables |->
                     Len(databases[d].Tables[n].Columns)]]]

\* PrintSummary, which main calls with -verbose once the file is loaded
PrintSummary ==
  /\ phase = "registry"
  /\ calls = 0
  /\ summary = <<>>
  /\ summary' = <<SummaryLines(Databases)>>
  /\ UNCHANGED <<phase, schemaFile, loadErr, registryVars, cmdVars, run, delivered,
                 eventsFound, scanErr, dumped, statistics, stats, dmlStats, EventCounts, printed>>

(***************************************************************************)
(* The scans: main up to ParseFile, the callback once per event, and main  *)
(* after ParseFile has returned                                            *)
(***************************************************************************)
\* main of one of the three programs, run without a schema file, up to the
\* call of ParseFile
StartScan(r) ==
  /\ phase = "startup"
  /\ phase' = "scan"
  /\ run' = <<r>>
  /\ UNCHANGED <<delivered, eventsFound, scanErr, dumped, statistics, stats,
                 dmlStats, EventCounts, printed, summary>>
  /\ UNCHANGED <<schemaFile, loadErr, cmdVars, registryVars>>

\* ParseFile gives the callback one more event: it does so until the file
\* ends or the callback returns an error
Delivers(program) ==
  /\ phase = "scan"
  /\ run[1].program = program
  /\ scanErr = <<>>
  /\ Len(delivered) < MaxEvents

\* fmt.Errorf("found next event at position %d (previous events ended at %d)",
\*            eventStartPos, e.Header.LogPos-uint32(e.Header.EventSize))
FoundNextEvent(e) ==
  [format |-> "found next event at position %d (previous events ended at %d)",
   position |-> EventStartPos(e), ended |-> Uint32(e.LogPos - Uint32(e.EventSize))]

\* the callback of cmd/main.go
MainCallback(e) ==
  /\ Delivers(MainProgram)
  /\ delivered' = Append(delivered, e)
  /\ IF e.LogPos >= Uint32(StartPositionOf(run[1]))
     THEN /\ dumped' = Append(dumped, Len(delivered) + 1)
          /\ scanErr' = IF run[1].stopAtNext
                            /\ e.LogPos > Uint32(StartPositionOf(run[1]))
                         THEN <<[format |-> "STOP", position |-> 0, ended |-> 0]>>
                         ELSE <<>>
     ELSE UNCHANGED <<dumped, scanErr>>
  /\ UNCHANGED <<phase, run, eventsFound, statistics, stats, dmlStats, EventCounts, printed, summary>>
  /\ UNCHANGED <<schemaFile, loadErr, cmdVars, registryVars>>

\* the callback of the main with the schema registry; schemaRegistry is nil
RegistryMainCallback(e) ==
  /\ Delivers(RegistryMain)
  /\ delivered' = Append(delivered, e)
  /\ IF run[1].parseAll \/ EventStartPos(e) = Uint32(StartPositionOf(run[1]))
     THEN /\ eventsFound' = TRUE
          /\ dumped' = IF ~run[1].showStats THEN Append(dumped, Len(delivered) + 1)
                        ELSE dumped
          /\ statistics' = IF OperationOf(e) # ""
                            THEN RecordOperation(statistics, e.Schema, e.Table,
                                                 OperationOf(e), RowCountOf(e))
                            ELSE statistics
          /\ UNCHANGED scanErr
     ELSE /\ scanErr' = IF /\ eventsFound
                            /\ EventStartPos(e) > Uint32(StartPositionOf(run[1]))
                            /\ ~run[1].parseAll
                            /\ run[1].stopAtNext
                         THEN <<FoundNextEvent(e)>> ELSE <<>>
          /\ UNCHANGED <<eventsFound, dumped, statistics>>
  /\ UNCHANGED <<phase, run, stats, dmlStats, EventCounts, printed, summary>>
  /\ UNCHANGED <<schemaFile, loadErr, cmdVars, registryVars>>

\* the callback of the main with the statistics
StatsMainCallback(e) ==
  /\ Delivers(StatsMain)
  /\ delivered' = Append(delivered, e)
  /\ IF EventStartPos(e) = Uint32(StartPositionOf(run[1]))
     THEN /\ eventsFound' = TRUE
          /\ dumped' = Append(dumped, Len(delivered) + 1)
          /\ stats' = IF OperationOf(e) # "" THEN RecordCall(stats, e) ELSE stats
          /\ UNCHANGED scanErr
     ELSE /\ scanErr' = IF /\ eventsFound
                            /\ EventStartPos(e) > Uint32(StartPositionOf(run[1]))
                            /\ run[1].stopAtNext
                         THEN <<FoundNextEvent(e)>> ELSE <<>>
          /\ UNCHANGED <<eventsFound, dumped, stats>>
  /\ UNCHANGED <<phase, run, statistics, dmlStats, EventCounts, printed, summary>>
  /\ UNCHANGED <<schemaFile, loadErr, cmdVars, registryVars>>

\* ParseFile returns, at the end of the file or with the error of the
\* callback, and main runs to its end: cmd/main.go prints the summary with
\* -summary
EndOfScan ==
  /\ phase = "scan"
  /\ phase' = "scan.exit"
  /\ summary' = IF run[1].program = MainProgram /\ run[1].showSummary
                THEN <<dmlStats>> ELSE <<>>
  /\ \E order \in Orders(DOMAIN EventCounts) :
       printed' = IF run[1].program = RegistryMain /\ run[1].showStats
                  THEN <<PrintStatsLines(EventCounts, order, statistics)>>
                  ELSE <<>>
  /\ UNCHANGED <<run, delivered, eventsFound, scanErr, dumped, statistics, stats,
                 dmlStats, EventCounts>>
  /\ UNCHANGED <<schemaFile, loadErr, cmdVars, registryVars>>

(***************************************************************************)
(* The statistics in the hands of a caller of the package: NewStatistics,  *)
(* then RecordEventType and RecordOperation in any order, then PrintStats  *)
(***************************************************************************)
\* the number of calls of RecordEventType and RecordOperation so far
RECURSIVE SumOf(_)
SumOf(f) ==
  IF DOMAIN f = {} THEN 0
  ELSE LET k == CHOOSE x \in DOMAIN f : TRUE
       IN  f[k] + SumOf([x \in DOMAIN f \ {k} |-> f[x]])

Recorded ==
  SumOf(EventCounts) + TotalOf(DatabaseLines(statistics, SortStrings(DOMAIN statistics)), "Count")

NewStatistics ==
  /\ phase = "startup"
  /\ phase' = "stats"
  /\ EventCounts' = EmptyMap
  /\ statistics' = EmptyMap
  /\ UNCHANGED <<run, delivered, eventsFound, scanErr, dumped, stats, dmlStats,
                 printed, summary>>
  /\ UNCHANGED <<schemaFile, loadErr, cmdVars, registryVars>>

\* s.EventCounts[eventType]++
RecordEventType(eventType) ==
  /\ phase = "stats"
  /\ Recorded < MaxEvents
  /\ EventCounts' = Put(EventCounts, eventType,
                        IF eventType \in DOMAIN EventCounts
                        THEN EventCounts[eventType] + 1 ELSE 1)
  /\ UNCHANGED <<phase, run, delivered, eventsFound, scanErr, dumped, statistics,
                 stats, dmlStats, printed, summary>>
  /\ UNCHANGED <<schemaFile, loadErr, cmdVars, registryVars>>

CallRecordOperation(database, table, operation, rowCount) ==
  /\ phase = "stats"
  /\ Recorded < MaxEvents
  /\ statistics' = RecordOperation(statistics, database, table, operation, rowCount)
  /\ UNCHANGED <<phase, run, delivered, eventsFound, scanErr, dumped, stats,
                 dmlStats, EventCounts, printed, summary>>
  /\ UNCHANGED <<schemaFile, loadErr, cmdVars, registryVars>>

\* PrintStats: the range loop over EventCounts visits the event types in an
\* order the Go runtime chooses; the databases, the tables and the operations
\* are visited in the order of their sorted keys
PrintStats ==
  /\ phase = "stats"
  /\ phase' = "stats.exit"
  /\ \E order \in Orders(DOMAIN EventCounts) :
       printed' = <<PrintStatsLines(EventCounts, order, statistics)>>
  /\ UNCHANGED <<run, delivered, eventsFound, scanErr, dumped, statistics, stats,
                 dmlStats, EventCounts, summary>>
  /\ UNCHANGED <<schemaFile, loadErr, cmdVars, registryVars>>

Next ==
  \/ \E file \in SchemaFiles : LoadSchemaFile(file)
  \/ NoSchemaFile
  \/ \E ev \in RowsEvents : handleInsert(ev)
  \/ \E ev \in RowsEvents : handleUpdate(ev)
  \/ \E ev \in RowsEvents : handleDelete(ev)
  \/ \E file \in RegistryFiles : RegistryLoadFromFile(file)
  \/ \E t \in Threads, p \in LookupPairs : GetTableInfo(t, p[1], p[2])
  \/ \E t \in Threads : Lock(t)
  \/ \E t \in Threads : ReadWarning(t)
  \/ \E t \in Threads : WriteWarning(t)
  \/ \E t \in Threads : Unlock(t)
  \/ CallPrintWarnings
  \/ PrintWarningsLock
  \/ PrintWarnings
  \/ PrintWarningsUnlock
  \/ PrintSummary
  \/ \E r \in CommandLines : StartScan(r)
  \/ \E e \in BinlogEvents : MainCallback(e)
  \/ \E e \in BinlogEvents : RegistryMainCallback(e)
  \/ \E e \in BinlogEvents : StatsMainCallback(e)
  \/ EndOfScan
  \/ NewStatistics
  \/ \E eventType \in EventTypes : RecordEventType(eventType)
  \/ \E c \in OperationCalls : CallRecordOperation(c[1], c[2], c[3], c[4])
  \/ PrintStats

Spec == Init /\ [][Next]_vars

\* the scheduling of the calls on the registry: a goroutine that can run does
\* run, and sync.Mutex hands the mutex to a caller that keeps waiting for it
\* (its starvation mode)
RegistryFairness ==
  /\ \A t \in Threads : SF_vars(Lock(t))
  /\ \A t \in Threads : WF_vars(ReadWarning(t))
  /\ \A t \in Threads : WF_vars(WriteWarning(t))
  /\ \A t \in Threads : WF_vars(Unlock(t))
  /\ SF_vars(PrintWarningsLock)
  /\ WF_vars(PrintWarnings)
  /\ WF_vars(PrintWarningsUnlock)

\* the program with the schema registry alone, on the registries that are
\* looked up
RegistryNext ==
  \/ \E file \in LookupFiles : RegistryLoadFromFile(file)
  \/ \E t \in Threads, p \in LookupPairs : GetTableInfo(t, p[1], p[2])
  \/ \E t \in Threads : Lock(t)
  \/ \E t \in Threads : ReadWarning(t)
  \/ \E t \in Threads : WriteWarning(t)
  \/ \E t \in Threads : Unlock(t)
  \/ CallPrintWarnings
  \/ PrintWarningsLock
  \/ PrintWarnings
  \/ PrintWarningsUnlock

LiveSpec == Init /\ [][RegistryNext]_vars /\ RegistryFairness

(***************************************************************************)
(* Properties                                                              *)
(***************************************************************************)
RECURSIVE SumOver(_, _)
SumOver(S, f) ==
  IF S = {} THEN 0
  ELSE LET x == CHOOSE y \in S : TRUE IN f[x] + SumOver(S \ {x}, f)

PairKey(p) == DotKey(p[1], p[2])

WarningCount(k) == IF k \in DOMAIN warnings THEN warnings[k] ELSE 0

\* the calls with key k that have missed and not yet written their increment
PendingIncrements(k) ==
  Cardinality({t \in Threads : pc[t] \in {"lock", "read", "write"} /\ WarningKey(t) = k})

MissesOfKey(k) == SumOver({p \in LookupPairs : PairKey(p) = k}, missed)

AllIdle == \A t \in Threads : pc[t] = "idle"

\* C1: a GetTableInfo call for a pair that is not loaded returns nil and adds
\* exactly one to the miss counter of its key, whatever the interleaving: the
\* counter of a key is the number of missing calls on that key less those
\* whose increment is still to be written, so that once the callers have
\* returned the counter of a key missed N times is N; no other key has a
\* counter
MissCounterExact ==
  /\ \A p \in LookupPairs :
       WarningCount(PairKey(p)) + PendingIncrements(PairKey(p)) = MissesOfKey(PairKey(p))
  /\ DOMAIN warnings \subseteq {PairKey(p) : p \in LookupPairs}
  /\ \A t \in Threads :
       pc[t] = "idle" /\ arg[t] \in LookupPairs
         => ret[t] = TableInfoOf(Databases, arg[t][1], arg[t][2])

\* two callers are inside GetTableInfo for the same missing key, one holding
\* the mutex and one waiting for it, and the key was counted before
ConcurrentMissesReached ==
  \E t1, t2 \in Threads :
    /\ t1 # t2
    /\ pc[t1] = "write" /\ pc[t2] = "lock"
    /\ WarningKey(t1) = WarningKey(t2)
    /\ WarningCount(WarningKey(t1)) >= 1

\* the row of the rows event that the k-th event put out was made from, and
\* its old row
EventOperation == event[1]

EventRows == event[2].Rows

InputRow(k) == IF EventOperation = "UPDATE" THEN EventRows[2 * k] ELSE EventRows[k]

EventTableDef == TableDefOf(SchemaDefinitions, event[2].Schema, event[2].Table)

MinOf(a, b) == IF a < b THEN a ELSE b

\* C2: with a definition for the table of the event, RowValues maps
\* Columns[i].Name to row[i] for every i below min(len(row), len(Columns)) and
\* has no other key
NamedProjectionExact ==
  event # <<>> /\ EventTableDef # <<>> =>
    \A k \in DOMAIN output :
      LET columns == EventTableDef[1].Columns
          row     == InputRow(k)
          n       == MinOf(Len(row), Len(columns))
      IN  /\ DOMAIN output[k].RowValues = {columns[i].Name : i \in 1..n}
          /\ \A i \in 1..n : output[k].RowValues[columns[i].Name] = row[i]

ColNames == <<"col_0", "col_1", "col_2", "col_3", "col_4", "col_5", "col_6", "col_7">>

\* C3: without a definition for the table of the event, RowValues has exactly
\* the keys col_0 .. col_{n-1} for a row of n values, col_i mapped to row[i],
\* and an event is put out for every row
PositionalProjectionExact ==
  event # <<>> /\ EventTableDef = <<>> =>
    /\ EventOperation # "UPDATE" => Len(output) = Len(EventRows)
    /\ \A k \in DOMAIN output :
         LET row == InputRow(k)
         IN  /\ DOMAIN output[k].RowValues = {ColNames[i] : i \in 1..Len(row)}
             /\ \A i \in 1..Len(row) : output[k].RowValues[ColNames[i]] = row[i]

\* an event for a table without definition and a row of three different
\* values has been projected
PositionalProjectionReached ==
  /\ event # <<>>
  /\ EventTableDef = <<>>
  /\ Len(output) >= 1
  /\ Len(InputRow(1)) = 3
  /\ output[1].RowValues = [n \in {"col_0", "col_1", "col_2"} |->
                              IF n = "col_0" THEN InputRow(1)[1]
                              ELSE IF n = "col_1" THEN InputRow(1)[2] ELSE InputRow(1)[3]]
  /\ InputRow(1)[1] # InputRow(1)[2]

\* the projection of one row by the naming rule: the column names of the
\* definition (a name carried by several columns keeps the value of the last
\* of them), or col_i without a definition
Projected(tableDef, row) ==
  IF tableDef = <<>>
  THEN [n \in {ColNames[i] : i \in 1..Len(row)} |->
          row[CHOOSE i \in 1..Len(row) : ColNames[i] = n]]
  ELSE LET columns == tableDef[1].Columns
           n == MinOf(Len(row), Len(columns))
       IN  [c \in {columns[i].Name : i \in 1..n} |->
              row[Max({i \in 1..n : columns[i].Name = c})]]

\* C4: for an UPDATE event with rows old_1, new_1, old_2, new_2, ... one event
\* is put out per pair, in order, with the projection of new_k as RowValues
\* and, apart from it, the projection of old_k as OldValues; INSERT and DELETE
\* events have no OldValues
UpdatePairsProjected ==
  event # <<>> =>
    IF EventOperation = "UPDATE"
    THEN /\ Len(EventRows) % 2 = 0 => Len(output) = Len(EventRows) \div 2
         /\ \A k \in DOMAIN output :
              /\ output[k].Operation = "UPDATE"
              /\ output[k].RowValues = Projected(EventTableDef, EventRows[2 * k])
              /\ output[k].OldValues = <<Projected(EventTableDef, EventRows[2 * k - 1])>>
    ELSE /\ Len(output) = Len(EventRows)
         /\ \A k \in DOMAIN output :
              /\ output[k].RowValues = Projected(EventTableDef, EventRows[k])
              /\ output[k].OldValues = <<>>

\* an UPDATE event of two pairs whose old and new rows differ has been
\* projected, for a table with a definition
UpdatePairsReached ==
  /\ event # <<>>
  /\ EventOperation = "UPDATE"
  /\ EventTableDef # <<>>
  /\ Len(EventRows) = 4
  /\ Len(output) = 2
  /\ output[2].OldValues # <<>>
  /\ output[2].OldValues[1] # output[2].RowValues
  /\ output[2].RowValues # EmptyMap

LoadedFile == schemaFile[1]

\* the position of the first line of the file that is text once trimmed,
\* 0 when there is none
LinePosition(lines, text) ==
  IF \E i \in 1..Len(lines) : TrimSpace(lines[i]) = text
  THEN Min({i \in 1..Len(lines) : TrimSpace(lines[i]) = text}) ELSE 0

\* C5: a line USE sbtest; before a CREATE TABLE sbtest1 (...) statement
\* registers the table under the database sbtest, where the lookup of
\* (sbtest, sbtest1) finds it
UseNamesDatabase ==
  /\ schemaFile # <<>>
  /\ LoadedFile.json = <<>>
  /\ LinePosition(LoadedFile.lines, "USE sbtest;") > 0
  /\ \E j \in 1..Len(LoadedFile.lines) :
       /\ j > LinePosition(LoadedFile.lines, "USE sbtest;")
       /\ HasPrefix(LoadedFile.lines[j], "CREATE TABLE sbtest1 (")
  => /\ phase = "cmd" => TableDefOf(SchemaDefinitions, "sbtest", "sbtest1") # <<>>
     /\ phase = "registry" => TableInfoOf(Databases, "sbtest", "sbtest1") # <<>>

\* C6: CREATE TABLE t (a INT, b VARCHAR(10) NOT NULL); yields the columns a
\* and b in this order, a nullable and b not
NotNullParsed ==
  phase = "cmd" /\ schemaFile = <<NotNullFile>> =>
    \E key \in DOMAIN SchemaDefinitions :
      LET columns == SchemaDefinitions[key].Columns
      IN  /\ SchemaDefinitions[key].Name = "t"
          /\ [i \in 1..Len(columns) |-> columns[i].Name] = <<"a", "b">>
          /\ [i \in 1..Len(columns) |-> columns[i].Nullable] = <<TRUE, FALSE>>

RegistryTables ==
  UNION {{Databases[d].Tables[n] : n \in DOMAIN Databases[d].Tables} : d \in DOMAIN Databases}

NamesOf(columns) == [i \in 1..Len(columns) |-> columns[i].Name]

\* C7: a comma inside nested parentheses separates no clauses: the statement
\* with the clauses c DECIMAL(10,2) and d INT yields the columns c and d, c
\* with its whole type
NestedCommaKept ==
  schemaFile = <<DecimalFile>> =>
    /\ phase = "cmd" =>
         \E key \in DOMAIN SchemaDefinitions :
           /\ NamesOf(SchemaDefinitions[key].Columns) = <<"c", "d">>
           /\ SchemaDefinitions[key].Columns[1].Type = "DECIMAL(10,2)"
    /\ phase = "registry" =>
         \E table \in RegistryTables :
           /\ NamesOf(table.Columns) = <<"c", "d">>
           /\ table.Columns[1].DataType = "DECIMAL(10,2)"

ConstraintWords == {"PRIMARY", "KEY", "UNIQUE", "CONSTRAINT", "INDEX"}

\* C8: no clause beginning with PRIMARY KEY, KEY, UNIQUE KEY, CONSTRAINT or
\* INDEX becomes a column (no schema file of the model names a column so)
NoConstraintColumns ==
  /\ \A key \in DOMAIN SchemaDefinitions :
       \A i \in 1..Len(SchemaDefinitions[key].Columns) :
         ToUpper(SchemaDefinitions[key].Columns[i].Name) \notin ConstraintWords
  /\ \A table \in RegistryTables :
       \A i \in 1..Len(table.Columns) :
         ToUpper(table.Columns[i].Name) \notin ConstraintWords

\* the tables of the JSON document that no later table of it has the key of
LastOfKey(tables) ==
  {i \in 1..Len(tables) :
     \A j \in (i + 1)..Len(tables) :
       DotKey(tables[j].Schema, tables[j].Name) # DotKey(tables[i].Schema, tables[i].Name)}

\* C9: after LoadSchemaFile has loaded a JSON document, GetTableDef of the
\* schema and name of a table of the document returns that table: its columns
\* with their names, types and nullable flags, in the order of the document
\* (for a key the document holds twice, the last table of that key)
JSONRoundTrip ==
  phase = "cmd" /\ schemaFile # <<>> /\ LoadedFile.json # <<>> =>
    \A i \in LastOfKey(LoadedFile.json[1].Tables) :
      LET table == LoadedFile.json[1].Tables[i]
      IN  TableDefOf(SchemaDefinitions, table.Schema, table.Name) = <<table>>

\* the document with sbtest.sbtest1 is loaded and the lookup returns the
\* columns id, k, c, pad
JSONRoundTripReached ==
  /\ phase = "cmd"
  /\ schemaFile = <<SbtestDoc>>
  /\ TableDefOf(SchemaDefinitions, "sbtest", "sbtest1") # <<>>
  /\ NamesOf(TableDefOf(SchemaDefinitions, "sbtest", "sbtest1")[1].Columns)
       = <<"id", "k", "c", "pad">>

\* C10: GetTableDef(d, t) returns a definition exactly when a table is
\* registered with database d and name t, the definition has Schema d and
\* Name t, and different pairs share neither an entry nor a miss counter
LookupExact ==
  /\ \A p \in TablePairs :
       LET found == TableDefOf(SchemaDefinitions, p[1], p[2])
       IN  /\ found # <<>> <=>
                \E key \in DOMAIN SchemaDefinitions :
                  /\ SchemaDefinitions[key].Schema = p[1]
                  /\ SchemaDefinitions[key].Name = p[2]
           /\ found # <<>> => found[1].Schema = p[1] /\ found[1].Name = p[2]
  /\ AllIdle => \A p \in LookupPairs : WarningCount(PairKey(p)) = missed[p]

\* C11: PrintWarnings prints every key missed at least once, once, with the
\* count it has when PrintWarnings runs, the higher counts first and equal
\* counts in ascending order of the key; it prints nothing when no lookup has
\* missed
WarningsReported ==
  report # <<>> =>
    LET counted == report[1].counted
        lines   == report[1].lines
    IN  /\ Len(lines) = Cardinality(DOMAIN counted)
        /\ \A k \in DOMAIN counted :
             /\ counted[k] >= 1
             /\ Cardinality({i \in 1..Len(lines) : lines[i].name = k}) = 1
             /\ \E i \in 1..Len(lines) : lines[i].name = k /\ lines[i].count = counted[k]
        /\ \A i, j \in 1..Len(lines) :
             i < j => \/ lines[i].count > lines[j].count
                      \/ /\ lines[i].count = lines[j].count
                         /\ StringLess(lines[i].name, lines[j].name)
        /\ (\A p \in LookupPairs : missed[p] = 0) => lines = <<>>

\* PrintWarnings has printed two keys, the one missed twice before the one
\* missed once although its name comes later
WarningsReportedReached ==
  /\ report # <<>>
  /\ report[1].lines = <<[name |-> "a.b.c", count |-> 2],
                         [name |-> "SBTEST.sbtest1", count |-> 1]>>

\* C12: the load returns an error only for a file that cannot be opened or
\* read; a readable file that is empty or has no CREATE TABLE statement loads
\* without error and leaves no table; a file that cannot be opened leaves the
\* registry as it was
LoadErrorOnlyUnreadable ==
  schemaFile # <<>> =>
    /\ loadErr # "" => ~LoadedFile.readable
    /\ LoadedFile \in {EmptyFile, NoTableFile}
         => loadErr = "" /\ SchemaDefinitions = EmptyMap /\ RegistryTables = {}
    /\ ~LoadedFile.readable
         => loadErr # "" /\ SchemaDefinitions = EmptyMap /\ Databases = EmptyMap

\* C13: LoadSchemaFile parses the file as a JSON document first: when that
\* succeeds the tables of the document, and nothing else, are registered
\* without error; when it fails no table decoded by the failed attempt is
\* registered and the tables and the error are those of the SQL extraction
\* over the same file
JSONFirstThenSQL ==
  phase \in {"cmd", "cmd.exit"} /\ schemaFile # <<>> /\ LoadedFile.readable =>
    IF LoadedFile.json # <<>>
    THEN LET tables == LoadedFile.json[1].Tables
         IN  /\ loadErr = ""
             /\ DOMAIN SchemaDefinitions
                  = {DotKey(tables[i].Schema, tables[i].Name) : i \in 1..Len(tables)}
             /\ {SchemaDefinitions[k] : k \in DOMAIN SchemaDefinitions}
                  = {tables[i] : i \in LastOfKey(tables)}
    ELSE /\ SchemaDefinitions = parseSQLSchema(EmptyMap, ScannedLines(LoadedFile))
         /\ loadErr = ScannerErr(LoadedFile)
         /\ \A i \in 1..Len(LoadedFile.decoded) :
              TableDefOf(SchemaDefinitions, LoadedFile.decoded[i].Schema,
                         LoadedFile.decoded[i].Name) = <<>>

\* a document that json.Unmarshal rejects after decoding a table has been
\* loaded: the SQL extraction found nothing and returned no error
FailedDocumentReached ==
  /\ phase = "cmd"
  /\ schemaFile = <<BadTypeDoc>>
  /\ Len(LoadedFile.decoded) = 1
  /\ loadErr = ""
  /\ SchemaDefinitions = EmptyMap

(***************************************************************************)
(* The scans                                                               *)
(***************************************************************************)
Scanning(program) ==
  /\ phase \in {"scan", "scan.exit"}
  /\ run[1].program = program

\* the start position of a delivered event: LogPos - EventSize
StartOf(i) == delivered[i].LogPos - delivered[i].EventSize

\* the deliveries that start at the position given on the command line
AtPosition == {i \in 1..Len(delivered) : StartOf(i) = run[1].position}

\* the deliveries that start after it and come after a delivery that starts at it
NextAfterPosition ==
  {i \in 1..Len(delivered) :
     StartOf(i) > run[1].position /\ \E j \in AtPosition : j < i}

\* a scan of the claim: -stopAtNext without -all, in one of the two programs
\* that compare start positions; the one with the schema registry dumps with
\* -showStats off
StopAtNextScan ==
  /\ phase \in {"scan", "scan.exit"}
  /\ run[1].program \in {RegistryMain, StatsMain}
  /\ run[1].stopAtNext
  /\ ~run[1].parseAll
  /\ run[1].program = RegistryMain => ~run[1].showStats

\* C14: with a start position P and -stopAtNext, without -all, the callback
\* dumps exactly the events whose start position LogPos - EventSize equals P
\* and ends the scan at the first event that starts after P and is delivered
\* after a dumped one, with the error "found next event at position <its start
\* position>"; no event is delivered to the callback after that one
StopAtNextExact ==
  StopAtNextScan =>
    /\ {dumped[k] : k \in 1..Len(dumped)} = AtPosition
    /\ Len(dumped) = Cardinality(AtPosition)
    /\ IF NextAfterPosition = {} THEN scanErr = <<>>
       ELSE /\ Min(NextAfterPosition) = Len(delivered)
            /\ scanErr # <<>>
            /\ scanErr[1].position = StartOf(Len(delivered))

\* the deliveries the callback of the main with the schema registry processed
Processed ==
  {i \in 1..Len(delivered) :
     run[1].parseAll \/ EventStartPos(delivered[i]) = Uint32(StartPositionOf(run[1]))}

\* the processed rows events of one event type, in its two versions, on one table
ProcessedOn(database, table, eventType) ==
  {i \in Processed :
     /\ delivered[i].Schema = database
     /\ delivered[i].Table = table
     /\ delivered[i].EventType \in {eventType \o "v1", eventType \o "v2"}}

EventTypeOf(operation) ==
  CASE operation = "INSERT" -> "WRITE_ROWS_EVENT"
    [] operation = "UPDATE" -> "UPDATE_ROWS_EVENT"
    [] operation = "DELETE" -> "DELETE_ROWS_EVENT"
    [] OTHER -> ""

\* what an event adds to RowCount: one per old/new pair for an UPDATE, one per
\* row for an INSERT or a DELETE
Contribution(operation, e) == IF operation = "UPDATE" THEN e.Rows \div 2 ELSE e.Rows

\* the entry of statistics.Stats, <<>> when there is none
EntryOf(database, table, operation) ==
  IF /\ database \in DOMAIN statistics
     /\ table \in DOMAIN statistics[database]
     /\ operation \in DOMAIN statistics[database][table]
  THEN <<statistics[database][table][operation]>>
  ELSE <<>>

\* the keys of the three levels of statistics.Stats, and those of the events
StatisticsKeys ==
  (DOMAIN statistics \cup {e.Schema : e \in BinlogEvents})
  \X (UNION {DOMAIN statistics[d] : d \in DOMAIN statistics}
        \cup {e.Table : e \in BinlogEvents})
  \X (UNION {UNION {DOMAIN statistics[d][t] : t \in DOMAIN statistics[d]} :
               d \in DOMAIN statistics}
        \cup {"INSERT", "UPDATE", "DELETE"})

\* C15: after any sequence of processed row events the entry of every
\* (database, table, operation) has for Count the number of processed row
\* events of that operation on that table and for RowCount the sum of their
\* row counts, len(Rows)/2 for an UPDATE and len(Rows) for an INSERT or a
\* DELETE; there is no entry where there was no such event, so a call changes
\* the entry of its own key only
StatisticsExact ==
  Scanning(RegistryMain) =>
    \A k \in StatisticsKeys :
      LET S == ProcessedOn(k[1], k[2], EventTypeOf(k[3]))
      IN  IF S = {} THEN EntryOf(k[1], k[2], k[3]) = <<>>
          ELSE EntryOf(k[1], k[2], k[3]) =
                 <<[Count |-> Cardinality(S),
                    RowCount |-> SumOver(S, [i \in S |-> Contribution(k[3], delivered[i])])]>>

\* two UPDATE events of four rows and an INSERT of two rows on the same table
StatisticsCounted ==
  /\ Scanning(RegistryMain)
  /\ EntryOf("a", "t", "UPDATE") = <<[Count |-> 2, RowCount |-> 4]>>
  /\ EntryOf("a", "t", "INSERT") = <<[Count |-> 1, RowCount |-> 2]>>

\* the rows events of one operation on one table that the callback of the main
\* with the statistics processed: those at the target position
RecordedOn(database, table, operation) ==
  {i \in 1..Len(delivered) :
     /\ EventStartPos(delivered[i]) = Uint32(StartPositionOf(run[1]))
     /\ delivered[i].Schema = database
     /\ delivered[i].Table = table
     /\ delivered[i].EventType \in {EventTypeOf(operation) \o "v1",
                                     EventTypeOf(operation) \o "v2"}}

\* the DbStats of a table in stats.Stats, <<>> when there is none
DbStatsOf(database, table) ==
  IF database \in DOMAIN stats /\ table \in DOMAIN stats[database]
  THEN <<stats[database][table]>>
  ELSE <<>>

\* C16: with -showStats, once the callback has processed WRITE, UPDATE and
\* DELETE rows events of table T of database D at the target position, the
\* statistics have an entry for D and T whose Inserts, Updates and Deletes
\* are the numbers of those events: each of them has added exactly one
StatsCounted ==
  Scanning(StatsMain) /\ run[1].showStats =>
    \A e \in BinlogEvents :
      LET inserts == Cardinality(RecordedOn(e.Schema, e.Table, "INSERT"))
          updates == Cardinality(RecordedOn(e.Schema, e.Table, "UPDATE"))
          deletes == Cardinality(RecordedOn(e.Schema, e.Table, "DELETE"))
      IN  inserts + updates + deletes > 0 =>
            /\ DbStatsOf(e.Schema, e.Table) # <<>>
            /\ DbStatsOf(e.Schema, e.Table)[1].Inserts = inserts
            /\ DbStatsOf(e.Schema, e.Table)[1].Updates = updates
            /\ DbStatsOf(e.Schema, e.Table)[1].Deletes = deletes

\* the delivered rows events of one operation that pass the -schema and -table
\* filters
Filtered(operation) ==
  {i \in 1..Len(delivered) :
     /\ delivered[i].EventType \in {EventTypeOf(operation) \o "v1",
                                     EventTypeOf(operation) \o "v2"}
     /\ run[1].schemaName # "" => EqualFold(run[1].schemaName, delivered[i].Schema)
     /\ run[1].tableName # "" => EqualFold(run[1].tableName, delivered[i].Table)}

FilteredOn(operation, key) ==
  {i \in Filtered(operation) : DotKey(delivered[i].Schema, delivered[i].Table) = key}

\* C17: with -summary the totals printed at the end of a run are the numbers
\* of INSERT, UPDATE and DELETE rows events delivered during the run that pass
\* the -schema and -table filters, in the global totals and per table
SummaryExact ==
  phase = "scan.exit" /\ run[1].program = MainProgram /\ run[1].showSummary =>
    /\ summary # <<>>
    /\ summary[1].Inserts = Cardinality(Filtered("INSERT"))
    /\ summary[1].Updates = Cardinality(Filtered("UPDATE"))
    /\ summary[1].Deletes = Cardinality(Filtered("DELETE"))
    /\ \A e \in BinlogEvents :
         LET key == DotKey(e.Schema, e.Table)
             inserts == Cardinality(FilteredOn("INSERT", key))
             updates == Cardinality(FilteredOn("UPDATE", key))
             deletes == Cardinality(FilteredOn("DELETE", key))
         IN  inserts + updates + deletes > 0 =>
               /\ key \in DOMAIN summary[1].TableStats
               /\ summary[1].TableStats[key] =
                    [Inserts |-> inserts, Updates |-> updates, Deletes |-> deletes]

(***************************************************************************)
(* The statements of the loaded dump                                       *)
(***************************************************************************)
\* a dump that both SQL loaders read to its end
LoadedDump ==
  /\ schemaFile # <<>>
  /\ LoadedFile.readable
  /\ LoadedFile.json = <<>>
  /\ LoadedFile.decoded = <<>>
  /\ LoadedFile.tooLong = 0

\* the lines of the dump that open a CREATE TABLE statement
CreateLines ==
  {i \in 1..Len(LoadedFile.lines) : HasPrefix(LoadedFile.lines[i], "CREATE TABLE ")}

\* the identifier the statement of line i declares, as written
DeclaredToken(i) == Split(LoadedFile.lines[i], " ")[3]

\* the names the statements declare, quoting removed
DeclaredNames == {Trim(DeclaredToken(i), {Backtick}) : i \in CreateLines}

\* the tables pkg/schema has registered
DefinedTables == {SchemaDefinitions[k] : k \in DOMAIN SchemaDefinitions}

\* C18: the column clauses of a statement are the whole text between its
\* outermost parenthesis and the matching one: the table sbtest1 of the shipped
\* dump, whose column types have lengths in parentheses, is registered with
\* the columns id, k, c and pad, in this order
ColumnClausesWhole ==
  schemaFile = <<DumpFile>> /\ phase = "cmd" =>
    \E t \in DefinedTables :
      t.Name = "sbtest1" /\ NamesOf(t.Columns) = <<"id", "k", "c", "pad">>

\* C19: a table declared by CREATE TABLE <name> (...), with a plain or a
\* backtick-quoted identifier, is registered under exactly <name> without its
\* quoting: every registered table has the name and the key of a statement of
\* the dump
TableNameExact ==
  /\ LoadedDump
  /\ \A i \in CreateLines : ~Contains(DeclaredToken(i), "'")
  =>
    /\ phase = "cmd" => \A t \in DefinedTables : t.Name \in DeclaredNames
    /\ phase = "registry" =>
         \A d \in DOMAIN Databases :
           \A n \in DOMAIN Databases[d].Tables :
             n \in DeclaredNames /\ Databases[d].Tables[n].Name = n

\* C20: the tables of a dump without USE statement are registered under the
\* empty database name, one table per CREATE TABLE statement
NoUseRegistered ==
  /\ LoadedDump
  /\ \A i \in 1..Len(LoadedFile.lines) :
       ~HasPrefix(ToUpper(TrimSpace(LoadedFile.lines[i])), "USE ")
  =>
    /\ phase = "cmd" =>
         /\ Cardinality(DefinedTables) = Cardinality(CreateLines)
         /\ \A t \in DefinedTables : t.Schema = ""
    /\ phase = "registry" =>
         /\ CreateLines # {} => DOMAIN Databases = {""}
         /\ Cardinality(RegistryTables) = Cardinality(CreateLines)

(***************************************************************************)
(* Statements, clauses and column names                                    *)
(***************************************************************************)
\* C21: in SchemaRegistry.LoadFromFile a CREATE TABLE statement written on one
\* line that ends with a semicolon is complete at that line: the two one-line
\* statements of the dump are registered as two tables, with the columns
\* (id, k) and (id), the second neither appended to the first nor replacing it
SingleLineRegistered ==
  phase = "registry" /\ schemaFile = <<UpperUseFile>> =>
    /\ Cardinality(RegistryTables) = 2
    /\ {NamesOf(t.Columns) : t \in RegistryTables} = {<<"id", "k">>, <<"id">>}

\* the lines of the dump that end with a semicolon, untrimmed
SemicolonLines ==
  {i \in 1..Len(LoadedFile.lines) : HasSuffix(LoadedFile.lines[i], ";")}

\* C22: in parseSQLSchema a statement is complete precisely at a line whose
\* last character, untrimmed, is the semicolon: a line with white space after
\* its semicolon completes nothing, so the dump yields at most one table per
\* line that ends with a semicolon
CompleteAtSemicolon ==
  LoadedDump /\ phase = "cmd" =>
    Cardinality(DefinedTables) <= Cardinality(SemicolonLines)

\* C23: a clause is left out of the columns only when its first token is one of
\* PRIMARY, KEY, UNIQUE (before KEY), CONSTRAINT and INDEX; a column whose
\* name only begins with one of these words is kept
KeywordPrefixKept ==
  schemaFile = <<KeywordFile>> =>
    /\ phase = "cmd" =>
         \A t \in DefinedTables :
           NamesOf(t.Columns) = <<"id", "key_id", "index_no", "primary_contact">>
    /\ phase = "registry" =>
         \A t \in RegistryTables :
           NamesOf(t.Columns) = <<"id", "key_id", "index_no", "primary_contact">>

(***************************************************************************)
(* Misses of the row projector, column names, frame of the registry        *)
(***************************************************************************)
\* C24: when createDMLEvent projects a row of an event whose table has no
\* definition, the miss is recorded, the count of misses of database.table
\* being at least one afterwards, and the row is projected with positional
\* names
ProjectorMissRecorded ==
  event # <<>> /\ EventTableDef = <<>> /\ Len(output) >= 1 =>
    /\ WarningCount(DotKey(event[2].Schema, event[2].Table)) >= 1
    /\ \A k \in DOMAIN output :
         DOMAIN output[k].RowValues = {ColNames[i] : i \in 1..Len(InputRow(k))}

Distinct(names) ==
  \A i \in 1..Len(names) : \A j \in 1..Len(names) : i # j => names[i] # names[j]

\* C25: whatever SQL or JSON source has been loaded, the column names of each
\* registered table are pairwise distinct
ColumnNamesDistinct ==
  /\ \A t \in DefinedTables : Distinct(NamesOf(t.Columns))
  /\ \A t \in RegistryTables : Distinct(NamesOf(t.Columns))

NilTable == <<>>

\* a step on a loaded registry that keeps the catalog, and changes a miss
\* counter only by the write of a call whose table is not in the catalog
CatalogStep ==
  phase \in {"registry", "registry.exit"} =>
    /\ Databases' = Databases
    /\ DOMAIN warnings \subseteq DOMAIN warnings'
    /\ \A k \in DOMAIN warnings' :
         warnings'[k] # WarningCount(k) =>
           /\ warnings'[k] = WarningCount(k) + 1
           /\ \E t \in Threads :
                /\ pc[t] = "write" /\ pc'[t] = "unlock"
                /\ DotKey(arg[t][1], arg[t][2]) = k
                /\ TableInfoOf(Databases, arg[t][1], arg[t][2]) = NilTable

\* C26: once the file is loaded no operation of the registry changes the
\* catalog: every step of GetTableInfo, PrintWarnings and PrintSummary leaves
\* Databases, and so every column list, as it was; a miss counter changes only
\* by one, by the write of a call whose table is not in the catalog, and it is
\* the counter of the key of that call
CatalogFrozen == [][CatalogStep]_vars

\* on one registry PrintSummary and PrintWarnings have run, a call has found
\* its table and another has been counted as a miss
CatalogUsed ==
  /\ phase = "registry.exit"
  /\ summary # <<>> /\ report # <<>>
  /\ warnings # EmptyMap
  /\ \E t \in Threads : pc[t] = "idle" /\ ret[t] # <<>>

(***************************************************************************)
(* Concurrent calls on the registry                                        *)
(***************************************************************************)
\* the callers that are between Lock and Unlock of sr.warnMutex
InsideMutex ==
  {t \in Threads : pc[t] \in {"read", "write", "unlock"}}
  \cup (IF printer \in {"print", "unlock"} THEN {Printer} ELSE {})

\* at most one caller accesses the map of miss counters at a time
MutualExclusion == Cardinality(InsideMutex) <= 1

\* the report made under the mutex counts, for every key, the misses whose
\* increment was written before PrintWarnings took the mutex: all those made
\* but the ones still in front of their increment
Snapshot ==
  printer = "unlock" =>
    /\ DOMAIN report[1].counted \subseteq {PairKey(p) : p \in LookupPairs}
    /\ \A p \in LookupPairs :
         (IF PairKey(p) \in DOMAIN report[1].counted
          THEN report[1].counted[PairKey(p)] ELSE 0)
           = MissesOfKey(PairKey(p)) - PendingIncrements(PairKey(p))

\* C27: under every interleaving of GetTableInfo calls with a PrintWarnings
\* call the accesses to the miss counters exclude one another, PrintWarnings
\* reports the counts of the misses completed before it took the mutex, and
\* every call returns: the mutex is always released
ExclusiveSnapshotReturns ==
  /\ [](MutualExclusion /\ Snapshot)
  /\ \A t \in Threads : (pc[t] # "idle") ~> (pc[t] = "idle")
  /\ (printer \in {"lock", "print", "unlock"}) ~> (printer = "done")

\* PrintWarnings holds the mutex, having counted a miss, while one call waits
\* for the mutex and another has just been made
PrintWarningsInterleaved ==
  /\ printer = "unlock"
  /\ report[1].counted # EmptyMap
  /\ \E t \in Threads : pc[t] = "lock"

\* C28: what PrintStats prints is in ascending order of the keys, whatever the
\* order of the recording: the event types ascending, and the operations
\* ascending by database, then by table, then by operation; the two totals
\* printed are the sums of the Count and of the RowCount of all operations
LineBefore(a, b) ==
  \/ StringLess(a.database, b.database)
  \/ a.database = b.database /\ StringLess(a.table, b.table)
  \/ a.database = b.database /\ a.table = b.table
     /\ StringLess(a.operation, b.operation)

AllOperations(s) ==
  {<<d, t, o>> \in (DOMAIN s) \X {"t", "u"} \X {"INSERT", "UPDATE", "DELETE"} :
     t \in DOMAIN s[d] /\ o \in DOMAIN s[d][t]}

RECURSIVE TotalOver(_, _, _)
TotalOver(s, keys, field) ==
  IF keys = {} THEN 0
  ELSE LET k == CHOOSE x \in keys : TRUE
       IN  s[k[1]][k[2]][k[3]][field] + TotalOver(s, keys \ {k}, field)

PrintStatsDeterministic ==
  printed # <<>> =>
    LET p == printed[1]
    IN  /\ \A i, j \in 1..Len(p.eventTypes) :
             i < j => p.eventTypes[i].eventType < p.eventTypes[j].eventType
        /\ \A i, j \in 1..Len(p.operations) :
             i < j => LineBefore(p.operations[i], p.operations[j])
        /\ p.totalOps = TotalOver(statistics, AllOperations(statistics), "Count")
        /\ p.totalRows = TotalOver(statistics, AllOperations(statistics), "RowCount")

\* the same with the event types left out
PrintStatsOperationsSorted ==
  printed # <<>> =>
    LET p == printed[1]
    IN  /\ \A i, j \in 1..Len(p.operations) :
             i < j => LineBefore(p.operations[i], p.operations[j])
        /\ Len(p.operations) = Cardinality(AllOperations(statistics))
        /\ p.totalOps = TotalOver(statistics, AllOperations(statistics), "Count")
        /\ p.totalRows = TotalOver(statistics, AllOperations(statistics), "RowCount")

\* C29: handleUpdate completes for every UPDATE rows event, those with an odd
\* number of rows and those with none included: it never reads Rows[i+1] past
\* the end of Rows
UpdateEvent == event # <<>> /\ event[1] = "UPDATE"

HandleUpdateInRange ==
  UpdateEvent =>
    /\ ~panicked
    /\ \A k \in 1..Len(output) : 2 * k <= Len(event[2].Rows)

\* the same for the events with an even number of rows
HandleUpdateInRangeEven ==
  UpdateEvent /\ Len(event[2].Rows) % 2 = 0 =>
    /\ ~panicked
    /\ Len(output) = Len(event[2].Rows) \div 2

\* C30: an event is the target only if its start position LogPos - EventSize
\* is the position P given on the command line, P taken as the 64-bit integer
\* it is: with P below 0 or at 2^32 and above no event is the target, and the
\* 32-bit start position of an event is never above its LogPos
PositionScan ==
  /\ phase \in {"scan", "scan.exit"}
  /\ ~run[1].parseAll

FitsUint32(p) == p \in 0..(Uint32Modulus - 1)

NothingSelected ==
  /\ dumped = <<>>
  /\ ~eventsFound
  /\ statistics = EmptyMap
  /\ stats = EmptyMap

TargetAtPositionGiven ==
  PositionScan =>
    /\ \A k \in 1..Len(dumped) : StartOf(dumped[k]) = run[1].position
    /\ eventsFound => AtPosition # {}
    /\ ~FitsUint32(run[1].position) => NothingSelected
    /\ \A i \in 1..Len(delivered) : EventStartPos(delivered[i]) <= delivered[i].LogPos

\* the same for the positions that fit a uint32, in the two programs that
\* compare start positions
TargetAtPositionInRange ==
  PositionScan /\ run[1].program \in {RegistryMain, StatsMain}
               /\ FitsUint32(run[1].position) =>
    /\ \A k \in 1..Len(dumped) : StartOf(dumped[k]) = run[1].position
    /\ eventsFound => AtPosition # {}
    /\ \A i \in 1..Len(delivered) : EventStartPos(delivered[i]) <= delivered[i].LogPos

\* the same for the positions that do not fit, in these two programs
TargetOutOfRange ==
  PositionScan /\ run[1].program \in {RegistryMain, StatsMain}
               /\ ~FitsUint32(run[1].position) => NothingSelected

====
